---- MODULE Spec2Model ----
(***************************************************************************)
(* A model of the TCP connection engine of microps (src/tcp.c): the PCB    *)
(* table, tcp_segment_arrives, and the user commands tcp_open_rfc793,      *)
(* tcp_send, tcp_receive and tcp_close.  The whole TCP subsystem runs      *)
(* under one mutex which is released only inside sched_sleep, so every     *)
(* action below is the code executed between two points where the mutex    *)
(* is free: a segment arrival, the event handler, or a user command from   *)
(* its call (or its wake-up) to its next sleep or its return.              *)
(***************************************************************************)
EXTENDS Integers, Sequences, FiniteSets

(***************************************************************************)
(* Program constants                                                       *)
(***************************************************************************)
TCP_PCB_SIZE == 16

BUF_SIZE == 65535

TCP_HDR_SIZE == 20

IP_HDR_SIZE_MIN == 20

IP_ADDR_ANY == 0

\* 0xffffffff; addresses are only compared for equality
IP_ADDR_BROADCAST == -1

TCP_PCB_STATE_FREE == 0

TCP_PCB_STATE_CLOSED == 1

TCP_PCB_STATE_LISTEN == 2

TCP_PCB_STATE_SYN_SENT == 3

TCP_PCB_STATE_SYN_RECEIVED == 4

TCP_PCB_STATE_ESTABLISHED == 5

\* the six flag bits of TCP_FLG_*, a flags octet being the set of the bits set
TCP_FLG_FIN == "FIN"

TCP_FLG_SYN == "SYN"

TCP_FLG_RST == "RST"

TCP_FLG_PSH == "PSH"

TCP_FLG_ACK == "ACK"

TCP_FLG_URG == "URG"

\* TCP_FLG_ISSET(x, y): some bit of the mask y is set in x
TCP_FLG_ISSET(x, y) == (x \cap y) # {}

(***************************************************************************)
(* Bounds of the model                                                     *)
(***************************************************************************)
\* user threads issuing commands
NumThreads == 2

\* user commands issued in one run
MaxCalls == 3

\* segments handed to tcp_input in one run
MaxSegs == 3

\* user commands and segments in one run
MaxSteps == 5

Threads == 1..NumThreads

(***************************************************************************)
(* Fixed-width arithmetic                                                  *)
(***************************************************************************)
\* A uint32_t is kept as its two 16-bit halves [hi, lo], the value being
\* hi * 65536 + lo: the checker's integers are narrower than 2^32.
U32Of(n) == [hi |-> (n \div 65536) % 65536, lo |-> n % 65536]

\* x + k modulo 2^32, for a uint32_t x and an integer k
U32Add(x, k) ==
    [hi |-> (x.hi + ((x.lo + k) \div 65536)) % 65536, lo |-> (x.lo + k) % 65536]

\* x - y modulo 2^32, for two uint32_t
U32Sub(x, y) ==
    [hi |-> (x.hi - y.hi + ((x.lo - y.lo) \div 65536)) % 65536,
     lo |-> (x.lo - y.lo) % 65536]

\* the unsigned comparisons < and <= of two uint32_t
U32Lt(x, y) == x.hi < y.hi \/ (x.hi = y.hi /\ x.lo < y.lo)

U32Le(x, y) == x.hi < y.hi \/ (x.hi = y.hi /\ x.lo <= y.lo)

\* MIN(m, x) for a size_t m below 2^31 and a uint32_t x
MinU32(m, x) ==
    IF x.hi < 32768 /\ x.hi * 65536 + x.lo < m THEN x.hi * 65536 + x.lo ELSE m

U16(x) == x % 65536

MIN(a, b) == IF a < b THEN a ELSE b

(***************************************************************************)
(* The receive buffer buf[65535] as a run-length encoded byte array: a     *)
(* sequence of runs [b |-> byte, n |-> count > 0] whose counts add up to   *)
(* the array's size, adjacent runs holding different bytes.                *)
(***************************************************************************)
RECURSIVE BytesLen(_)
BytesLen(s) == IF s = <<>> THEN 0 ELSE Head(s).n + BytesLen(Tail(s))

\* the first k bytes of s
RECURSIVE BytesTake(_, _)
BytesTake(s, k) ==
    IF k <= 0 \/ s = <<>> THEN <<>>
    ELSE IF Head(s).n <= k THEN <<Head(s)>> \o BytesTake(Tail(s), k - Head(s).n)
    ELSE <<[b |-> Head(s).b, n |-> k]>>

\* s without its first k bytes
RECURSIVE BytesDrop(_, _)
BytesDrop(s, k) ==
    IF k <= 0 \/ s = <<>> THEN s
    ELSE IF Head(s).n <= k THEN BytesDrop(Tail(s), k - Head(s).n)
    ELSE <<[b |-> Head(s).b, n |-> Head(s).n - k]>> \o Tail(s)

\* concatenation, merging the runs that meet when they hold the same byte
BytesCat(s, t) ==
    IF s = <<>> THEN t
    ELSE IF t = <<>> THEN s
    ELSE IF s[Len(s)].b = t[1].b
         THEN SubSeq(s, 1, Len(s) - 1)
              \o <<[b |-> t[1].b, n |-> s[Len(s)].n + t[1].n] >> \o Tail(t)
         ELSE s \o t

\* the bytes [from, from + k) of s
BytesSub(s, from, k) == BytesTake(BytesDrop(s, from), k)

\* k bytes of value b
BytesOf(b, k) == IF k <= 0 THEN <<>> ELSE <<[b |-> b, n |-> k]>>

ZeroBuf == BytesOf(0, BUF_SIZE)

(***************************************************************************)
(* struct tcp_pcb.  The fields the code never reads or writes (snd.up,     *)
(* rcv.up, mtu, mss) are left out.  The wait context ctx is the set of     *)
(* calls sleeping on the slot, kept in the variable calls.  held is not a  *)
(* field of the code: it counts the payload bytes stored in buf and not    *)
(* yet copied out by tcp_receive.                                          *)
(***************************************************************************)
Endpoint(addr, port) == [addr |-> addr, port |-> port]

\* a zeroed slot: the static array before use, and the result of memset
ZeroPcb ==
    [state |-> TCP_PCB_STATE_FREE,
     local |-> Endpoint(0, 0),
     foreign |-> Endpoint(0, 0),
     snd |-> [nxt |-> U32Of(0), una |-> U32Of(0), wnd |-> 0,
              wl1 |-> U32Of(0), wl2 |-> U32Of(0)],
     iss |-> U32Of(0),
     rcv |-> [nxt |-> U32Of(0), wnd |-> 0],
     irs |-> U32Of(0),
     buf |-> ZeroBuf,
     held |-> 0]

Slots == 0..(TCP_PCB_SIZE - 1)

\* a null struct tcp_pcb pointer
NoPcb == -1

\* FirstFree returning the highest FREE slot from i on (a fault C17 must
\* detect)
RECURSIVE HighestFree(_, _)
HighestFree(P, i) ==
    IF i >= TCP_PCB_SIZE THEN NoPcb
    ELSE IF HighestFree(P, i + 1) # NoPcb THEN HighestFree(P, i + 1)
    ELSE IF P[i].state = TCP_PCB_STATE_FREE THEN i
    ELSE NoPcb

\* the lowest FREE slot, or NoPcb
RECURSIVE FirstFree(_, _)
FirstFree(P, i) ==
    IF i >= TCP_PCB_SIZE THEN NoPcb
    ELSE IF P[i].state = TCP_PCB_STATE_FREE THEN i
    ELSE FirstFree(P, i + 1)

\* tcp_pcb_alloc: the slot taken (NoPcb when the table is full)
tcp_pcb_alloc_slot(P) == FirstFree(P, 0)

\* tcp_pcb_alloc: the table after the slot is marked CLOSED
tcp_pcb_alloc(P) ==
    IF FirstFree(P, 0) = NoPcb THEN P
    ELSE [P EXCEPT ![FirstFree(P, 0)].state = TCP_PCB_STATE_CLOSED]

\* the test of the local endpoint in tcp_pcb_select
LocalMatch(pcb, local) ==
    /\ (pcb.local.addr = IP_ADDR_ANY \/ pcb.local.addr = local.addr)
    /\ pcb.local.port = local.port

\* the loop of tcp_pcb_select from slot i on; foreign is <<>> for a null
\* pointer and <<endpoint>> otherwise
RECURSIVE SelectFrom(_, _, _, _, _)
SelectFrom(P, local, foreign, i, listen_pcb) ==
    IF i >= TCP_PCB_SIZE THEN listen_pcb
    ELSE IF LocalMatch(P[i], local)
    THEN IF foreign = <<>> THEN i
         ELSE IF P[i].foreign.addr = foreign[1].addr
                 /\ P[i].foreign.port = foreign[1].port
         THEN i
         ELSE IF P[i].state = TCP_PCB_STATE_LISTEN
                 /\ P[i].foreign.addr = IP_ADDR_ANY /\ P[i].foreign.port = 0
         THEN SelectFrom(P, local, foreign, i + 1, i)
         ELSE SelectFrom(P, local, foreign, i + 1, listen_pcb)
    ELSE SelectFrom(P, local, foreign, i + 1, listen_pcb)

\* tcp_pcb_select returning the first PCB that passes either test, the
\* wildcard LISTEN test included (a fault C10 must detect)
RECURSIVE SelectFirstFrom(_, _, _, _)
SelectFirstFrom(P, local, foreign, i) ==
    IF i >= TCP_PCB_SIZE THEN NoPcb
    ELSE IF LocalMatch(P[i], local)
            /\ (\/ foreign = <<>>
                \/ P[i].foreign = foreign[1]
                \/ (/\ P[i].state = TCP_PCB_STATE_LISTEN
                    /\ P[i].foreign = Endpoint(IP_ADDR_ANY, 0)))
    THEN i
    ELSE SelectFirstFrom(P, local, foreign, i + 1)

tcp_pcb_select_first(P, local, foreign) == SelectFirstFrom(P, local, foreign, 0)

tcp_pcb_select(P, local, foreign) == SelectFrom(P, local, foreign, 0, NoPcb)

\* tcp_pcb_get without the test for a FREE slot (a fault C18 must detect)
tcp_pcb_get_any(P, id) ==
    IF id < 0 \/ id >= TCP_PCB_SIZE THEN NoPcb ELSE id

tcp_pcb_get(P, id) ==
    IF id < 0 \/ id >= TCP_PCB_SIZE THEN NoPcb
    ELSE IF P[id].state = TCP_PCB_STATE_FREE THEN NoPcb
    ELSE id

(***************************************************************************)
(* Segment emission.  A segment handed to ip_output is recorded with the   *)
(* header fields tcp_output_segment writes; len is the payload length and  *)
(* off the offset of the payload in the caller's data (0 without payload). *)
(***************************************************************************)
tcp_output_segment(seq, ack, flg, wnd, off, len, local, foreign) ==
    [seq |-> seq, ack |-> ack, flg |-> flg, wnd |-> wnd, off |-> off,
     len |-> len, local |-> local, foreign |-> foreign]

\* tcp_output advertising a window of 0 (a fault C12 must detect)
tcp_output_no_window(pcb, flg, off, len) ==
    tcp_output_segment(
        IF TCP_FLG_ISSET(flg, {TCP_FLG_SYN}) THEN pcb.iss ELSE pcb.snd.nxt,
        pcb.rcv.nxt, flg, 0, off, len, pcb.local, pcb.foreign)

tcp_output(pcb, flg, off, len) ==
    tcp_output_segment(
        IF TCP_FLG_ISSET(flg, {TCP_FLG_SYN}) THEN pcb.iss ELSE pcb.snd.nxt,
        pcb.rcv.nxt, flg, pcb.rcv.wnd, off, len, pcb.local, pcb.foreign)

(***************************************************************************)
(* tcp_segment_arrives.  The result is the table after the arrival, the    *)
(* segments emitted, whether sched_wakeup was posted to the selected PCB's *)
(* context, and whether memcpy wrote past the end of buf.                  *)
(***************************************************************************)
Arrival(P, out, wake, overrun) ==
    [pcbs |-> P, out |-> out, wake |-> wake, overrun |-> overrun]

\* memcpy(buf + off, data, len) within the array; what exceeds it is cut
MemcpyAt(buf, off, data) ==
    BytesCat(BytesCat(BytesTake(buf, off), BytesTake(data, BUF_SIZE - off)),
             BytesDrop(buf, off + BytesLen(data)))

\* memmove(buf, buf + len, remain - len): the tail keeps its old bytes
MemmoveDown(buf, len, remain) ==
    BytesCat(BytesSub(buf, len, remain - len), BytesDrop(buf, remain - len))

\* x lies in [rcv.nxt, rcv.nxt + rcv.wnd), as the code compares it
InWindow(pcb, x) ==
    U32Le(pcb.rcv.nxt, x) /\ U32Lt(x, U32Add(pcb.rcv.nxt, pcb.rcv.wnd))

\* 1st check sequence number (SYN_RECEIVED, ESTABLISHED)
Acceptable(pcb, seg) ==
    IF seg.len = 0
    THEN IF pcb.rcv.wnd = 0
         THEN seg.seq = pcb.rcv.nxt
         ELSE InWindow(pcb, seg.seq)
    ELSE IF pcb.rcv.wnd = 0
         THEN FALSE
         ELSE InWindow(pcb, seg.seq) \/ InWindow(pcb, U32Add(seg.seq, seg.len - 1))

\* no PCB, or a CLOSED one
ArrivesClosed(P, seg, flags, local, foreign) ==
    IF TCP_FLG_ISSET(flags, {TCP_FLG_RST})
    THEN Arrival(P, <<>>, FALSE, FALSE)
    ELSE IF ~TCP_FLG_ISSET(flags, {TCP_FLG_ACK})
    THEN Arrival(P, <<tcp_output_segment(U32Of(0), U32Add(seg.seq, seg.len),
                        {TCP_FLG_RST, TCP_FLG_ACK}, 0, 0, 0, local, foreign)>>,
                 FALSE, FALSE)
    ELSE Arrival(P, <<tcp_output_segment(seg.ack, U32Of(0), {TCP_FLG_RST}, 0, 0, 0,
                        local, foreign)>>, FALSE, FALSE)

\* ListenSynPcb with the SYN not counted in rcv.nxt (a fault C1 must detect)
ListenSynPcbNoSyn(pcb, seg, local, foreign, iss) ==
    [pcb EXCEPT !.local = local, !.foreign = foreign,
                !.rcv.wnd = BUF_SIZE, !.rcv.nxt = seg.seq,
                !.irs = seg.seq, !.iss = iss]

\* the PCB after a SYN is accepted in LISTEN, before the SYN|ACK is built
ListenSynPcb(pcb, seg, local, foreign, iss) ==
    [pcb EXCEPT !.local = local, !.foreign = foreign,
                !.rcv.wnd = BUF_SIZE, !.rcv.nxt = U32Add(seg.seq, 1),
                !.irs = seg.seq, !.iss = iss]

ArrivesListen(P, p, seg, flags, local, foreign, iss) ==
    IF TCP_FLG_ISSET(flags, {TCP_FLG_RST})
    THEN Arrival(P, <<>>, FALSE, FALSE)
    ELSE IF TCP_FLG_ISSET(flags, {TCP_FLG_ACK})
    THEN Arrival(P, <<tcp_output_segment(seg.ack, U32Of(0), {TCP_FLG_RST}, 0, 0, 0,
                        local, foreign)>>, FALSE, FALSE)
    ELSE IF TCP_FLG_ISSET(flags, {TCP_FLG_SYN})
    THEN LET q == ListenSynPcb(P[p], seg, local, foreign, iss)
         IN  Arrival([P EXCEPT ![p] =
                        [q EXCEPT !.snd.nxt = U32Add(q.iss, 1),
                                  !.snd.una = q.iss,
                                  !.state = TCP_PCB_STATE_SYN_RECEIVED]],
                     <<tcp_output(q, {TCP_FLG_SYN, TCP_FLG_ACK}, 0, 0)>>,
                     FALSE, FALSE)
    ELSE Arrival(P, <<>>, FALSE, FALSE)

\* AckEstablished taking every acknowledgment number that differs from
\* snd.una (a fault C11 must detect)
AckEstablishedAnyAck(pcb, seg) ==
    IF seg.ack # pcb.snd.una
    THEN [pcb EXCEPT !.snd.una = seg.ack, !.snd.wnd = seg.wnd,
                     !.snd.wl1 = seg.seq, !.snd.wl2 = seg.ack]
    ELSE pcb

\* AckEstablished taking the window of every new acknowledgment, without
\* the test of wl1 and wl2 (a fault C20 must detect)
AckEstablishedAlwaysWindow(pcb, seg) ==
    IF U32Lt(pcb.snd.una, seg.ack) /\ U32Le(seg.ack, pcb.snd.nxt)
    THEN [pcb EXCEPT !.snd.una = seg.ack, !.snd.wnd = seg.wnd,
                     !.snd.wl1 = seg.seq, !.snd.wl2 = seg.ack]
    ELSE pcb

\* 5th check the ACK field, ESTABLISHED: the send variables after the ACK
AckEstablished(pcb, seg) ==
    IF U32Lt(pcb.snd.una, seg.ack) /\ U32Le(seg.ack, pcb.snd.nxt)
    THEN IF U32Lt(pcb.snd.wl1, seg.seq)
            \/ (pcb.snd.wl1 = seg.seq /\ U32Le(pcb.snd.wl2, seg.ack))
         THEN [pcb EXCEPT !.snd.una = seg.ack, !.snd.wnd = seg.wnd,
                          !.snd.wl1 = seg.seq, !.snd.wl2 = seg.ack]
         ELSE [pcb EXCEPT !.snd.una = seg.ack]
    ELSE pcb

\* the ACK acknowledges something not yet sent
AckTooNew(pcb, seg) ==
    /\ ~(U32Lt(pcb.snd.una, seg.ack) /\ U32Le(seg.ack, pcb.snd.nxt))
    /\ ~U32Lt(seg.ack, pcb.snd.una)
    /\ U32Lt(pcb.snd.nxt, seg.ack)

\* SegmentText storing the payload at the head of buf (a fault C6 must
\* detect)
SegmentTextAtHead(pcb, seg, data, len) ==
    [pcb EXCEPT !.buf = MemcpyAt(pcb.buf, 0, data),
                !.rcv.nxt = U32Add(seg.seq, seg.len),
                !.rcv.wnd = U16(pcb.rcv.wnd - len),
                !.held = pcb.held + MIN(len, pcb.rcv.wnd)]

\* 7th process the segment text: the PCB after the payload is stored
SegmentText(pcb, seg, data, len) ==
    [pcb EXCEPT !.buf = MemcpyAt(pcb.buf, BUF_SIZE - pcb.rcv.wnd, data),
                !.rcv.nxt = U32Add(seg.seq, seg.len),
                !.rcv.wnd = U16(pcb.rcv.wnd - len),
                !.held = pcb.held + MIN(len, pcb.rcv.wnd)]

\* ArrivesEstablished forgetting the wake-up posted in SYN_RECEIVED (a fault
\* C19 must detect)
ArrivesEstablishedNoWake(P, p, q, seg, data, len, woke, ctx_ok) ==
    IF AckTooNew(q, seg)
    THEN Arrival([P EXCEPT ![p] = q], <<tcp_output(q, {TCP_FLG_ACK}, 0, 0)>>,
                 FALSE, FALSE)
    ELSE LET a == AckEstablished(q, seg)
             over == len > q.rcv.wnd
         IN  IF len # 0
             THEN LET t == SegmentText(a, seg, data, len)
                  IN  Arrival([P EXCEPT ![p] = t],
                              <<tcp_output(t, {TCP_FLG_ACK}, 0, 0)>>,
                              ~over \/ ctx_ok, over)
             ELSE Arrival([P EXCEPT ![p] = a], <<>>, FALSE, FALSE)

\* steps 5 (ESTABLISHED) to 8 for the PCB q, now in state ESTABLISHED;
\* woke tells whether step 5 of SYN_RECEIVED has posted a wake-up.  A
\* memcpy past the end of buf is undefined: the bytes behind buf belong to
\* the wait context, so the wake-up that follows may be lost (ctx_ok false).
ArrivesEstablished(P, p, q, seg, data, len, woke, ctx_ok) ==
    IF AckTooNew(q, seg)
    THEN Arrival([P EXCEPT ![p] = q], <<tcp_output(q, {TCP_FLG_ACK}, 0, 0)>>,
                 woke, FALSE)
    ELSE LET a == AckEstablished(q, seg)
             over == len > q.rcv.wnd
         IN  IF len # 0
             THEN LET t == SegmentText(a, seg, data, len)
                  IN  Arrival([P EXCEPT ![p] = t],
                              <<tcp_output(t, {TCP_FLG_ACK}, 0, 0)>>,
                              woke \/ ~over \/ ctx_ok, over)
             ELSE Arrival([P EXCEPT ![p] = a], <<>>, woke, FALSE)

\* SYN_RECEIVED and ESTABLISHED, and the states the switches do not name
ArrivesOtherwise(P, p, seg, flags, data, len, local, foreign, ctx_ok) ==
    LET pcb == P[p]
        synced == pcb.state \in {TCP_PCB_STATE_SYN_RECEIVED,
                                 TCP_PCB_STATE_ESTABLISHED}
    IN  IF synced /\ ~Acceptable(pcb, seg)
        THEN IF ~TCP_FLG_ISSET(flags, {TCP_FLG_RST})
             THEN Arrival(P, <<tcp_output(pcb, {TCP_FLG_ACK}, 0, 0)>>, FALSE, FALSE)
             ELSE Arrival(P, <<>>, FALSE, FALSE)
        ELSE IF ~TCP_FLG_ISSET(flags, {TCP_FLG_ACK})
        THEN Arrival(P, <<>>, FALSE, FALSE)
        ELSE IF pcb.state = TCP_PCB_STATE_SYN_RECEIVED
        THEN IF U32Le(pcb.snd.una, seg.ack) /\ U32Le(seg.ack, pcb.snd.nxt)
             THEN ArrivesEstablished(P, p,
                      [pcb EXCEPT !.state = TCP_PCB_STATE_ESTABLISHED],
                      seg, data, len, TRUE, ctx_ok)
             ELSE Arrival(P, <<tcp_output_segment(seg.ack, U32Of(0), {TCP_FLG_RST}, 0,
                                 0, 0, local, foreign)>>, FALSE, FALSE)
        ELSE IF pcb.state = TCP_PCB_STATE_ESTABLISHED
        THEN ArrivesEstablished(P, p, pcb, seg, data, len, FALSE, ctx_ok)
        ELSE Arrival(P, <<>>, FALSE, FALSE)

tcp_segment_arrives(P, seg, flags, data, len, local, foreign, iss, ctx_ok) ==
    LET p == tcp_pcb_select(P, local, <<foreign>>)
    IN  IF p = NoPcb THEN ArrivesClosed(P, seg, flags, local, foreign)
        ELSE IF P[p].state = TCP_PCB_STATE_CLOSED
        THEN ArrivesClosed(P, seg, flags, local, foreign)
        ELSE IF P[p].state = TCP_PCB_STATE_LISTEN
        THEN ArrivesListen(P, p, seg, flags, local, foreign, iss)
        ELSE IF P[p].state = TCP_PCB_STATE_SYN_SENT
        THEN Arrival(P, <<>>, FALSE, FALSE)
        ELSE ArrivesOtherwise(P, p, seg, flags, data, len, local, foreign, ctx_ok)

(***************************************************************************)
(* tcp_input: the checks on a datagram d handed over by IP, and the        *)
(* segment information derived from its header.  d.len is the length of    *)
(* the TCP header and payload, d.off the data-offset nibble of hdr->off,   *)
(* d.b the byte the payload is filled with.                                *)
(***************************************************************************)
TcpInputDrops(d) ==
    \/ d.len < TCP_HDR_SIZE
    \/ ~d.sum_ok
    \/ d.src = IP_ADDR_BROADCAST
    \/ d.dst = IP_ADDR_BROADCAST

\* hlen = (hdr->off >> 4) << 2
HdrLen(d) == d.off * 4

\* len - hlen
DataLen(d) == d.len - HdrLen(d)

SegInfo(d) ==
    [seq |-> d.seq, ack |-> d.ack, wnd |-> d.wnd,
     len |-> U16(U16(U16(d.len - HdrLen(d))
                     + (IF TCP_FLG_SYN \in d.flg THEN 1 ELSE 0))
                 + (IF TCP_FLG_FIN \in d.flg THEN 1 ELSE 0))]

tcp_input(P, d, iss, ctx_ok) ==
    IF TcpInputDrops(d) THEN Arrival(P, <<>>, FALSE, FALSE)
    ELSE tcp_segment_arrives(P, SegInfo(d), d.flg, BytesOf(d.b, DataLen(d)),
                             DataLen(d), Endpoint(d.dst, d.dport),
                             Endpoint(d.src, d.sport), iss, ctx_ok)

(***************************************************************************)
(* The wait context (sched_ctx) of a slot: the calls sleeping on it.  A    *)
(* call is inside sched_sleep from the moment it sleeps until it has the   *)
(* mutex again; wake tells what ended the sleep ("none" while it lasts).   *)
(***************************************************************************)
Idle ==
    [op |-> "none", id |-> NoPcb, state |-> 0, len |-> 0, sent |-> 0,
     size |-> 0, wake |-> "none"]

Sleeping(C, t, p) == C[t].op # "none" /\ C[t].id = p

sched_wakeup(C, p) ==
    [t \in DOMAIN C |->
        IF Sleeping(C, t, p) /\ C[t].wake = "none"
        THEN [C[t] EXCEPT !.wake = "wakeup"] ELSE C[t]]

sched_interrupt(C, p) ==
    [t \in DOMAIN C |->
        IF Sleeping(C, t, p) /\ C[t].wake = "none"
        THEN [C[t] EXCEPT !.wake = "interrupt"] ELSE C[t]]

\* -1 when a waiter is still present
sched_ctx_destroy(C, p) ==
    IF \E t \in DOMAIN C : Sleeping(C, t, p) THEN -1 ELSE 0

\* tcp_pcb_release without the memset (a fault C16 must detect)
tcp_pcb_release_no_memset(P, C, p) == P

\* tcp_pcb_release: the table afterwards
tcp_pcb_release(P, C, p) ==
    IF sched_ctx_destroy(C, p) = -1 THEN P ELSE [P EXCEPT ![p] = ZeroPcb]

\* tcp_pcb_release: the sleeping calls afterwards
tcp_pcb_release_wake(C, p) ==
    IF sched_ctx_destroy(C, p) = -1 THEN sched_wakeup(C, p) ELSE C

(***************************************************************************)
(* State                                                                   *)
(***************************************************************************)
VARIABLES
    pcbs,     \* the PCB table: Slots -> struct tcp_pcb
    calls,    \* per thread, the user command sleeping in sched_sleep (or Idle)
    out,      \* the segments handed to ip_output by the last step, in order
    ret,      \* the user command that returned in the last step, if any
    overrun,  \* memcpy has written past the end of a receive buffer
    ncalls,   \* user commands issued so far
    nsegs     \* segments handed to tcp_input so far

vars == <<pcbs, calls, out, ret, overrun, ncalls, nsegs>>

\* no command returned
NoRet == [op |-> "none", id |-> NoPcb, val |-> 0, err |-> "none", data |-> <<>>]

\* the command op on PCB p (NoPcb when the handle names none) returned val;
\* err names the branch that returned it, data is what tcp_receive copied out
Ret(op, p, val, err, data) ==
    [op |-> op, id |-> p, val |-> val, err |-> err, data |-> data]

Init ==
    /\ pcbs = [i \in Slots |-> ZeroPcb]
    /\ calls = [t \in Threads |-> Idle]
    /\ out = <<>>
    /\ ret = NoRet
    /\ overrun = FALSE
    /\ ncalls = 0
    /\ nsegs = 0

(***************************************************************************)
(* Inputs                                                                  *)
(***************************************************************************)
HostAddr == 10 * 16777216 + 2

PeerAddr == 10 * 16777216 + 5

\* the endpoints segments arrive for and from: <<local, foreign>>
ArrivalPairs ==
    {<<Endpoint(HostAddr, 7), Endpoint(PeerAddr, 40000)>>,
     <<Endpoint(HostAddr, 0), Endpoint(IP_ADDR_ANY, 0)>>}

\* flags and payload length of the segments that arrive
SegShapes ==
    {<<{TCP_FLG_SYN}, 0>>, <<{TCP_FLG_ACK}, 0>>, <<{TCP_FLG_RST}, 0>>,
     <<{TCP_FLG_ACK, TCP_FLG_PSH}, 5>>, <<{TCP_FLG_ACK, TCP_FLG_PSH}, 65530>>,
     <<{TCP_FLG_PSH}, 5>>, <<{TCP_FLG_RST, TCP_FLG_ACK}, 0>>}

\* initial sequence numbers of the peer
ISNs == {U32Of(1000)}

\* values random() returns for iss
ISSs == {U32Of(100)}

\* windows the peer advertises
Windows == {1, 4}

Synced(pcb) ==
    pcb.state \in {TCP_PCB_STATE_SYN_RECEIVED, TCP_PCB_STATE_ESTABLISHED}

\* sequence numbers tried against the PCB p a segment is for
SeqChoices(p) ==
    IF p # NoPcb /\ Synced(pcbs[p])
    THEN {pcbs[p].rcv.nxt, U32Add(pcbs[p].rcv.nxt, -1)}
    ELSE ISNs

\* acknowledgment numbers tried against the PCB p a segment is for
AckChoices(p, flg) ==
    IF TCP_FLG_ACK \notin flg THEN {U32Of(0)}
    ELSE IF p # NoPcb /\ Synced(pcbs[p])
    THEN {pcbs[p].snd.nxt, U32Add(pcbs[p].snd.una, 1), U32Add(pcbs[p].snd.nxt, 1),
          U32Add(pcbs[p].snd.una, -1)}
    ELSE {U32Of(77)}

\* local endpoints, foreign endpoints (<<>> for none) and the active flag of
\* tcp_open_rfc793
OpenLocals == {Endpoint(IP_ADDR_ANY, 7), Endpoint(HostAddr, 7)}

OpenForeigns == {<<>>, <<Endpoint(PeerAddr, 40000)>>}

\* handles passed to tcp_send, tcp_receive and tcp_close
Handles == {-1, 0, 1, TCP_PCB_SIZE}

SendLens == {3, 8}

ReceiveSizes == {2, 8}

\* what ip_route_get_iface finds: nothing, or an interface and its MTU
Routes == {<<>>, <<1500>>, <<42>>}

\* data-offset nibbles of the headers that arrive
Offs == {5}

(***************************************************************************)
(* Actions                                                                 *)
(***************************************************************************)
\* a command is issued by the first thread that is not inside one: the
\* threads differ in nothing the code can see
CanCall(t) ==
    /\ calls[t] = Idle
    /\ ncalls < MaxCalls
    /\ ncalls + nsegs < MaxSteps
    /\ \A u \in Threads : u < t => calls[u] # Idle

\* what one step leaves in the table, the sleeping calls, the emitted
\* segments and the returned command
Step(P, C, O, R) == pcbs' = P /\ calls' = C /\ out' = O /\ ret' = R

\* the datagram of shape sh between the endpoints of pair
Datagram(pair, sh, seq, ack, wnd, off) ==
    [src |-> pair[2].addr, sport |-> pair[2].port,
     dst |-> pair[1].addr, dport |-> pair[1].port,
     seq |-> seq, ack |-> ack, off |-> off, flg |-> sh[1], wnd |-> wnd,
     len |-> off * 4 + sh[2], b |-> nsegs + 1, sum_ok |-> TRUE]

\* tcp_input under the mutex, for the datagram d
TcpInput(d, iss, ctx_ok) ==
    LET r == tcp_input(pcbs, d, iss, ctx_ok)
        p == tcp_pcb_select(pcbs, Endpoint(d.dst, d.dport),
                            <<Endpoint(d.src, d.sport)>>)
    IN  /\ nsegs < MaxSegs
        /\ ncalls + nsegs < MaxSteps
        /\ Step(r.pcbs, IF r.wake THEN sched_wakeup(calls, p) ELSE calls,
                r.out, NoRet)
        /\ overrun' = (overrun \/ r.overrun)
        /\ nsegs' = nsegs + 1
        /\ UNCHANGED ncalls

\* event_handler posting the interrupt to the PCBs in LISTEN only (a fault
\* C14 must detect)
RECURSIVE InterruptListenFrom(_, _, _)
InterruptListenFrom(P, C, i) ==
    IF i >= TCP_PCB_SIZE THEN C
    ELSE InterruptListenFrom(P,
             IF P[i].state = TCP_PCB_STATE_LISTEN THEN sched_interrupt(C, i) ELSE C,
             i + 1)

\* event_handler: sched_interrupt on every PCB that is not FREE
RECURSIVE InterruptFrom(_, _, _)
InterruptFrom(P, C, i) ==
    IF i >= TCP_PCB_SIZE THEN C
    ELSE InterruptFrom(P,
             IF P[i].state # TCP_PCB_STATE_FREE THEN sched_interrupt(C, i) ELSE C,
             i + 1)

\* the handler emits nothing and ends no command: out and ret keep what the
\* last arrival or command left
EventHandler ==
    /\ calls' = InterruptFrom(pcbs, calls, 0)
    /\ UNCHANGED <<pcbs, out, ret, overrun, ncalls, nsegs>>

\* the command of thread t returns: release PCB p first when rel is set
Return(t, P, p, rel, O, R) ==
    LET C0 == [calls EXCEPT ![t] = Idle]
    IN  IF rel
        THEN Step(tcp_pcb_release(P, C0, p), tcp_pcb_release_wake(C0, p), O, R)
        ELSE Step(P, C0, O, R)

\* the command of thread t enters sched_sleep as call c
Sleep(t, P, c, O) == Step(P, [calls EXCEPT ![t] = c], O, NoRet)

\* SetState storing SYN_SENT whatever the state asked for (a fault C15
\* must detect)
SetStateSynSent(P, p, st) == [P EXCEPT ![p].state = TCP_PCB_STATE_SYN_SENT]

SetState(P, p, st) == [P EXCEPT ![p].state = st]

\* tcp_open_rfc793 up to its first sleep
Open(t, local, foreign, active) ==
    LET p == tcp_pcb_alloc_slot(pcbs)
        P1 == tcp_pcb_alloc(pcbs)
    IN  /\ CanCall(t)
        /\ ncalls' = ncalls + 1
        /\ UNCHANGED <<overrun, nsegs>>
        /\ IF p = NoPcb
           THEN Return(t, pcbs, p, FALSE, <<>>,
                       Ret("open", NoPcb, -1, "alloc", <<>>))
           ELSE IF active
           THEN Return(t, P1, p, TRUE, <<>>, Ret("open", p, -1, "active", <<>>))
           ELSE Sleep(t,
                    [P1 EXCEPT ![p].local = local,
                               ![p].foreign = IF foreign = <<>> THEN @ ELSE foreign[1],
                               ![p].state = TCP_PCB_STATE_LISTEN],
                    [Idle EXCEPT !.op = "open", !.id = p,
                                 !.state = TCP_PCB_STATE_LISTEN],
                    <<>>)

\* OpenKeepsWaiting without the goto AGAIN (a fault C2 must detect)
OpenKeepsWaitingNoAgain(st, captured) == st = captured

\* tcp_open_rfc793 goes back to sleep: the PCB is in the state the loop
\* captured, or it is in SYN_RECEIVED (goto AGAIN, which captures it)
OpenKeepsWaiting(st, captured) ==
    st = captured \/ st = TCP_PCB_STATE_SYN_RECEIVED

\* tcp_open_rfc793 from a return of sched_sleep to its next sleep or its end
OpenResume(t) ==
    LET c == calls[t]
        p == c.id
    IN  /\ c.op = "open"
        /\ c.wake # "none"
        /\ UNCHANGED <<overrun, ncalls, nsegs>>
        /\ IF c.wake = "interrupt"
           THEN Return(t, SetState(pcbs, p, TCP_PCB_STATE_CLOSED), p, TRUE, <<>>,
                       Ret("open", p, -1, "EINTR", <<>>))
           ELSE IF OpenKeepsWaiting(pcbs[p].state, c.state)
           THEN Sleep(t, pcbs, [c EXCEPT !.wake = "none", !.state = pcbs[p].state],
                      <<>>)
           ELSE IF pcbs[p].state # TCP_PCB_STATE_ESTABLISHED
           THEN Return(t, SetState(pcbs, p, TCP_PCB_STATE_CLOSED), p, TRUE, <<>>,
                       Ret("open", p, -1, "state", <<>>))
           ELSE Return(t, pcbs, p, FALSE, <<>>, Ret("open", p, p, "none", <<>>))

\* tcp_close
Close(t, id) ==
    LET p == tcp_pcb_get(pcbs, id)
    IN  /\ CanCall(t)
        /\ ncalls' = ncalls + 1
        /\ UNCHANGED <<overrun, nsegs>>
        /\ IF p = NoPcb
           THEN Return(t, pcbs, p, FALSE, <<>>,
                       Ret("close", NoPcb, -1, "notfound", <<>>))
           ELSE Return(t, pcbs, p, TRUE,
                       <<tcp_output(pcbs[p], {TCP_FLG_RST}, 0, 0)>>,
                       Ret("close", p, 0, "none", <<>>))

\* the window the peer still has room for: snd.wnd - (snd.nxt - snd.una)
SendCap(pcb) == U32Sub(U32Of(pcb.snd.wnd), U32Sub(pcb.snd.nxt, pcb.snd.una))

\* the while loop of tcp_send: k counts the calls of tcp_output, of which
\* the failAt-th fails in ip_output (none when failAt is 0)
RECURSIVE SendLoop(_, _, _, _, _, _, _)
SendLoop(pcb, sent, len, mss, k, failAt, segs) ==
    IF ~(sent < len)
    THEN [kind |-> "done", pcb |-> pcb, sent |-> sent, segs |-> segs]
    ELSE IF SendCap(pcb) = U32Of(0)
    THEN [kind |-> "sleep", pcb |-> pcb, sent |-> sent, segs |-> segs]
    ELSE IF k = failAt
    THEN [kind |-> "fail", pcb |-> pcb, sent |-> sent, segs |-> segs]
    ELSE LET slen == MinU32(MIN(mss, len - sent), SendCap(pcb))
         IN  SendLoop([pcb EXCEPT !.snd.nxt = U32Add(@, slen)], sent + slen,
                      len, mss, k + 1, failAt,
                      Append(segs, tcp_output(pcb, {TCP_FLG_ACK, TCP_FLG_PSH},
                                              sent, slen)))

\* tcp_send from the label RETRY to its next sleep or its end
SendRetry(t, p, id, sent, len, route, failAt) ==
    IF pcbs[p].state # TCP_PCB_STATE_ESTABLISHED
    THEN Return(t, pcbs, p, FALSE, <<>>, Ret("send", id, -1, "state", <<>>))
    ELSE IF route = <<>>
    THEN Return(t, pcbs, p, FALSE, <<>>, Ret("send", id, -1, "route", <<>>))
    ELSE LET r == SendLoop(pcbs[p], sent, len,
                           route[1] - (IP_HDR_SIZE_MIN + TCP_HDR_SIZE), 1,
                           failAt, <<>>)
             P1 == [pcbs EXCEPT ![p] = r.pcb]
         IN  IF r.kind = "sleep"
             THEN Sleep(t, P1,
                        [Idle EXCEPT !.op = "send", !.id = p, !.len = len,
                                     !.sent = r.sent], r.segs)
             ELSE IF r.kind = "fail"
             THEN Return(t, SetState(P1, p, TCP_PCB_STATE_CLOSED), p, TRUE,
                         r.segs, Ret("send", id, -1, "output", <<>>))
             ELSE Return(t, P1, p, FALSE, r.segs,
                         Ret("send", id, r.sent, "none", <<>>))

\* tcp_send up to its first sleep
Send(t, id, len, route, failAt) ==
    LET p == tcp_pcb_get(pcbs, id)
    IN  /\ CanCall(t)
        /\ ncalls' = ncalls + 1
        /\ UNCHANGED <<overrun, nsegs>>
        /\ IF p = NoPcb
           THEN Return(t, pcbs, p, FALSE, <<>>,
                       Ret("send", NoPcb, -1, "notfound", <<>>))
           ELSE SendRetry(t, p, id, 0, len, route, failAt)

\* tcp_send from a return of sched_sleep on
SendResume(t, route, failAt) ==
    LET c == calls[t]
    IN  /\ c.op = "send"
        /\ c.wake # "none"
        /\ UNCHANGED <<overrun, ncalls, nsegs>>
        /\ IF c.wake = "interrupt"
           THEN IF c.sent = 0
                THEN Return(t, pcbs, c.id, FALSE, <<>>,
                            Ret("send", c.id, -1, "EINTR", <<>>))
                ELSE Return(t, pcbs, c.id, FALSE, <<>>,
                            Ret("send", c.id, c.sent, "none", <<>>))
           ELSE SendRetry(t, c.id, c.id, c.sent, c.len, route, failAt)

\* tcp_receive from the label RETRY to its next sleep or its end
ReceiveRetry(t, p, id, size) ==
    LET pcb == pcbs[p]
        remain == BUF_SIZE - pcb.rcv.wnd
        len == MIN(size, remain)
    IN  IF pcb.state # TCP_PCB_STATE_ESTABLISHED
        THEN Return(t, pcbs, p, FALSE, <<>>,
                    Ret("receive", id, -1, "state", <<>>))
        ELSE IF remain = 0
        THEN Sleep(t, pcbs, [Idle EXCEPT !.op = "receive", !.id = p, !.size = size],
                   <<>>)
        ELSE Return(t,
                    [pcbs EXCEPT ![p].buf = MemmoveDown(pcb.buf, len, remain),
                                 ![p].rcv.wnd = U16(pcb.rcv.wnd + len),
                                 ![p].held = pcb.held - len],
                    p, FALSE, <<>>,
                    Ret("receive", id, len, "none", BytesTake(pcb.buf, len)))

\* tcp_receive up to its first sleep
Receive(t, id, size) ==
    LET p == tcp_pcb_get(pcbs, id)
    IN  /\ CanCall(t)
        /\ ncalls' = ncalls + 1
        /\ UNCHANGED <<overrun, nsegs>>
        /\ IF p = NoPcb
           THEN Return(t, pcbs, p, FALSE, <<>>,
                       Ret("receive", NoPcb, -1, "notfound", <<>>))
           ELSE ReceiveRetry(t, p, id, size)

\* tcp_receive from a return of sched_sleep on
ReceiveResume(t) ==
    LET c == calls[t]
    IN  /\ c.op = "receive"
        /\ c.wake # "none"
        /\ UNCHANGED <<overrun, ncalls, nsegs>>
        /\ IF c.wake = "interrupt"
           THEN Return(t, pcbs, c.id, FALSE, <<>>,
                       Ret("receive", c.id, -1, "EINTR", <<>>))
           ELSE ReceiveRetry(t, c.id, c.id, c.size)

\* the PCB selected for a segment between the endpoints of pair
PcbFor(pair) == tcp_pcb_select(pcbs, pair[1], <<pair[2]>>)

\* the datagrams of shape sh that may arrive between the endpoints of pair
\* in the current state, each with the value random() would return and the
\* fate of the wake-up after an overrun
InputsFor(pair, sh) ==
    LET p == PcbFor(pair)
    IN  {[d |-> Datagram(pair, sh, seq, ack, wnd, off), iss |-> iss,
          ctx_ok |-> ctx_ok] :
             seq \in SeqChoices(p), ack \in AckChoices(p, sh[1]),
             wnd \in (IF TCP_FLG_ACK \in sh[1] THEN Windows ELSE {4}),
             off \in Offs, iss \in ISSs,
             ctx_ok \in (IF p # NoPcb /\ sh[2] > pcbs[p].rcv.wnd
                         THEN BOOLEAN ELSE {TRUE})}

\* the datagrams that may arrive in the current state
ArrivalInputs ==
    UNION {InputsFor(pair, sh) : pair \in ArrivalPairs, sh \in SegShapes}

Arrive == \E x \in ArrivalInputs : TcpInput(x.d, x.iss, x.ctx_ok)

Next ==
    \/ Arrive
    \/ EventHandler
    \/ \E t \in Threads, local \in OpenLocals, foreign \in OpenForeigns,
          active \in BOOLEAN : Open(t, local, foreign, active)
    \/ \E t \in Threads : OpenResume(t)
    \/ \E t \in Threads, id \in Handles : Close(t, id)
    \/ \E t \in Threads, id \in Handles, len \in SendLens, route \in Routes,
          failAt \in 0..1 : Send(t, id, len, route, failAt)
    \/ \E t \in Threads, route \in Routes, failAt \in 0..1 :
          SendResume(t, route, failAt)
    \/ \E t \in Threads, id \in Handles, size \in ReceiveSizes : Receive(t, id, size)
    \/ \E t \in Threads : ReceiveResume(t)

Spec == Init /\ [][Next]_vars

\* A thread whose sched_sleep has ended gets the mutex and runs again
Resume(t) ==
    \/ OpenResume(t)
    \/ \E route \in Routes, failAt \in 0..1 : SendResume(t, route, failAt)
    \/ ReceiveResume(t)

FairSpec == Spec /\ \A t \in Threads : WF_vars(Resume(t))

(***************************************************************************)
(* A table that earlier connections have filled.  The PCB of slot i is     *)
(* what tcp_segment_arrives makes of a PCB in LISTEN on port 7 when peer i *)
(* completes the handshake (SYN, then ACK of the SYN|ACK) and the open     *)
(* call has returned.  The user threads of this specification only open   *)
(* and close connections.                                                  *)
(***************************************************************************)
\* the foreign endpoint of the earlier connection in slot i
EarlierPeer(i) == Endpoint(PeerAddr, 50000 + i)

\* the segment of an earlier peer: its information and flags
EarlierSyn == [seq |-> U32Of(1000), ack |-> U32Of(0), wnd |-> 4, len |-> 1]

EarlierAck == [seq |-> U32Of(1001), ack |-> U32Of(101), wnd |-> 4, len |-> 0]

\* the PCB of slot i after open, SYN and ACK, on a table otherwise empty
Connected(i) ==
    LET local == Endpoint(HostAddr, 7)
        P0 == [j \in Slots |->
                 IF j = i THEN [ZeroPcb EXCEPT !.state = TCP_PCB_STATE_LISTEN,
                                               !.local = local]
                 ELSE ZeroPcb]
        P1 == tcp_segment_arrives(P0, EarlierSyn, {TCP_FLG_SYN}, <<>>, 0, local,
                                  EarlierPeer(i), U32Of(100), TRUE).pcbs
        P2 == tcp_segment_arrives(P1, EarlierAck, {TCP_FLG_ACK}, <<>>, 0, local,
                                  EarlierPeer(i), U32Of(100), TRUE).pcbs
    IN  P2[i]

\* the sets of slots left FREE by the earlier connections: none, or two
FreeSlotSets == {{}, {3, 9}}

PrefilledInit ==
    /\ \E free \in FreeSlotSets :
         pcbs = [i \in Slots |-> IF i \in free THEN ZeroPcb ELSE Connected(i)]
    /\ calls = [t \in Threads |-> Idle]
    /\ out = <<>>
    /\ ret = NoRet
    /\ overrun = FALSE
    /\ ncalls = 0
    /\ nsegs = 0

OpenCloseNext ==
    \/ Arrive
    \/ EventHandler
    \/ \E t \in Threads, local \in OpenLocals, foreign \in OpenForeigns,
          active \in BOOLEAN : Open(t, local, foreign, active)
    \/ \E t \in Threads : OpenResume(t)
    \/ \E t \in Threads, id \in Handles : Close(t, id)

PrefilledSpec == PrefilledInit /\ [][OpenCloseNext]_vars

(***************************************************************************)
(* A connection whose peer chose an initial sequence number just below     *)
(* 2^32.  Thread 1 has opened port 7 passively, the peer has sent its SYN  *)
(* and then the ACK of the SYN|ACK; the table is what tcp_segment_arrives  *)
(* makes of these two segments.                                            *)
(***************************************************************************)
\* initial sequence numbers of the peer: 2^32 - 3 and 2^32 - 65537
WrapISNs == {[hi |-> 65535, lo |-> 65533], [hi |-> 65534, lo |-> 65535]}

\* the table after open, SYN and ACK from the peer of ArrivalPairs
WrapTable(isn) ==
    LET local == Endpoint(HostAddr, 7)
        foreign == Endpoint(PeerAddr, 40000)
        P0 == [j \in Slots |->
                 IF j = 0 THEN [ZeroPcb EXCEPT !.state = TCP_PCB_STATE_LISTEN,
                                               !.local = local]
                 ELSE ZeroPcb]
        P1 == tcp_segment_arrives(P0,
                  [seq |-> isn, ack |-> U32Of(0), wnd |-> 4, len |-> 1],
                  {TCP_FLG_SYN}, <<>>, 0, local, foreign, U32Of(100), TRUE).pcbs
    IN  tcp_segment_arrives(P1,
            [seq |-> U32Add(isn, 1), ack |-> U32Of(101), wnd |-> 4, len |-> 0],
            {TCP_FLG_ACK}, <<>>, 0, local, foreign, U32Of(100), TRUE).pcbs

\* the open call of thread 1 sleeps on slot 0; the ACK has ended its sleep
\* if it has established the connection
WrapInit ==
    /\ \E isn \in WrapISNs :
         /\ pcbs = WrapTable(isn)
         /\ calls = [t \in Threads |->
                       IF t = 1
                       THEN [Idle EXCEPT
                               !.op = "open", !.id = 0,
                               !.state = TCP_PCB_STATE_LISTEN,
                               !.wake = IF WrapTable(isn)[0].state
                                            = TCP_PCB_STATE_ESTABLISHED
                                        THEN "wakeup" ELSE "none"]
                       ELSE Idle]
    /\ out = <<>>
    /\ ret = NoRet
    /\ overrun = FALSE
    /\ ncalls = 0
    /\ nsegs = 0

\* the peer sends segments; the user threads take the open call to its end
\* and receive
WrapNext ==
    \/ Arrive
    \/ \E t \in Threads : OpenResume(t)
    \/ \E t \in Threads, id \in Handles, size \in ReceiveSizes : Receive(t, id, size)
    \/ \E t \in Threads : ReceiveResume(t)

WrapSpec == WrapInit /\ [][WrapNext]_vars

(***************************************************************************)
(* ip_input.  A datagram g handed over by the device: g.len is the number  *)
(* of bytes received, g.version and g.ihl the two nibbles of hdr->vhl,     *)
(* g.total the total-length field, g.sum_hdr_ok whether the checksum over  *)
(* the header is zero, g.sum_all_ok whether the checksum over all g.len    *)
(* bytes is zero, g.mf and g.frag the MF bit and the fragment offset,      *)
(* g.iface the IP interface of the device (<<>> for none), g.data the TCP  *)
(* datagram it carries.  Addresses are the raw 32-bit values, as signed    *)
(* integers.                                                               *)
(***************************************************************************)
IP_VERSION_IPV4 == 4

IP_PROTOCOL_TCP == 6

\* hlen = ntoh16(hdr->vhl) & 0x0f * 4, that is ntoh16(vhl) & 60: with the
\* bytes swapped (little-endian host) the low byte is 0; unswapped it is
\* vhl & 60
ip_hlen(g, swapped) ==
    IF swapped THEN 0 ELSE (((g.version * 16 + g.ihl) \div 4) % 16) * 4

\* unicast | 0xff000000
OrTopByte(unicast) == (unicast % 16777216) - 16777216

\* the checks of ip_input, in the order of the code
IpInputDrops(g, swapped) ==
    \/ g.len < IP_HDR_SIZE_MIN
    \/ g.version # IP_VERSION_IPV4
    \/ g.len < ip_hlen(g, swapped)
    \/ g.len < g.total
    \/ ~g.sum_all_ok
    \/ g.mf \/ g.frag # 0
    \/ g.iface = <<>>
    \/ /\ g.iface[1].unicast # g.dst
       /\ g.dst # IP_ADDR_BROADCAST
       /\ g.dst # OrTopByte(g.iface[1].unicast)

\* ip_input: a datagram that passes the checks is logged and dumped; no
\* upper-layer handler is called
ip_input(P, g, swapped) ==
    IF IpInputDrops(g, swapped)
    THEN Arrival(P, <<>>, FALSE, FALSE)
    ELSE Arrival(P, <<>>, FALSE, FALSE)

\* the interface of the device: its unicast address and its broadcast
\* address unicast | ~netmask
Iface == [unicast |-> HostAddr, broadcast |-> HostAddr + 253]

\* what is wrong with a datagram that arrives
IpFaults ==
    {"none", "short", "version", "hlen", "total", "sum", "frag", "noiface",
     "dst", "proto"}

\* the IP datagram that carries the TCP datagram d; sum_all_ok tells whether
\* the checksum over header and payload happens to be zero
IpDatagram(d, fault, sum_all_ok) ==
    [len |-> IF fault = "short" THEN IP_HDR_SIZE_MIN - 1
             ELSE IF fault = "hlen" THEN 2 * IP_HDR_SIZE_MIN
             ELSE IF fault = "total" THEN IP_HDR_SIZE_MIN + d.len - 1
             ELSE IP_HDR_SIZE_MIN + d.len,
     version |-> IF fault = "version" THEN 6 ELSE IP_VERSION_IPV4,
     ihl |-> IF fault = "hlen" THEN 15 ELSE 5,
     total |-> IP_HDR_SIZE_MIN + d.len,
     sum_hdr_ok |-> fault # "sum",
     sum_all_ok |-> sum_all_ok,
     mf |-> fault = "frag",
     frag |-> 0,
     iface |-> IF fault = "noiface" THEN <<>> ELSE <<Iface>>,
     src |-> d.src,
     dst |-> IF fault = "dst" THEN PeerAddr ELSE d.dst,
     protocol |-> IF fault = "proto" THEN 17 ELSE IP_PROTOCOL_TCP,
     data |-> d]

\* the datagrams the device may hand to ip_input in the current state, each
\* with the byte order of the host
IpInputs ==
    {[g |-> IpDatagram(x.d, fault, all), swapped |-> swapped, iss |-> x.iss,
      ctx_ok |-> x.ctx_ok] :
         x \in ArrivalInputs, fault \in IpFaults, all \in BOOLEAN,
         swapped \in BOOLEAN}

\* ip_input for the datagram g
IpInput(g, swapped) ==
    LET r == ip_input(pcbs, g, swapped)
    IN  /\ Step(r.pcbs, calls, r.out, NoRet)
        /\ UNCHANGED <<overrun, ncalls, nsegs>>

IpArrive == \E y \in IpInputs : IpInput(y.g, y.swapped)

\* the program with the datagrams entering through ip_input
IpNext ==
    \/ IpArrive
    \/ EventHandler
    \/ \E t \in Threads, local \in OpenLocals, foreign \in OpenForeigns,
          active \in BOOLEAN : Open(t, local, foreign, active)
    \/ \E t \in Threads : OpenResume(t)
    \/ \E t \in Threads, id \in Handles : Close(t, id)

IpSpec == Init /\ [][IpNext]_vars

(***************************************************************************)
(* Properties                                                              *)
(***************************************************************************)
\* C1: in every step in which a segment with SYN set and neither RST nor
\* ACK set arrives for a PCB in LISTEN, the PCB takes the arrival endpoints
\* as local and foreign, rcv.wnd becomes 65535, rcv.nxt = seg.seq + 1 and
\* irs = seg.seq, exactly one segment is emitted, a SYN|ACK with seq = iss
\* and ack = seg.seq + 1, and the PCB ends in SYN_RECEIVED with
\* snd.una = iss and snd.nxt = iss + 1.
C1_ListenSyn ==
    [][nsegs' # nsegs =>
       \A pair \in ArrivalPairs, sh \in SegShapes :
        LET p == PcbFor(pair)
        IN  (/\ p # NoPcb
             /\ pcbs[p].state = TCP_PCB_STATE_LISTEN
             /\ sh[1] \cap {TCP_FLG_SYN, TCP_FLG_RST, TCP_FLG_ACK} = {TCP_FLG_SYN})
            => \A x \in InputsFor(pair, sh) :
                TcpInput(x.d, x.iss, x.ctx_ok)
                => (/\ pcbs'[p].local = pair[1]
                    /\ pcbs'[p].foreign = pair[2]
                    /\ pcbs'[p].rcv.wnd = 65535
                    /\ pcbs'[p].rcv.nxt = U32Add(x.d.seq, 1)
                    /\ pcbs'[p].irs = x.d.seq
                    /\ Len(out') = 1
                    /\ out'[1].flg = {TCP_FLG_SYN, TCP_FLG_ACK}
                    /\ out'[1].seq = pcbs'[p].iss
                    /\ out'[1].ack = U32Add(x.d.seq, 1)
                    /\ out'[1].len = 0
                    /\ pcbs'[p].state = TCP_PCB_STATE_SYN_RECEIVED
                    /\ pcbs'[p].snd.una = pcbs'[p].iss
                    /\ pcbs'[p].snd.nxt = U32Add(pcbs'[p].iss, 1))]_vars

\* a SYN has just been answered: the PCB is in SYN_RECEIVED and the SYN|ACK
\* is the segment emitted by the last step
C1_Witness ==
    \E p \in Slots :
        /\ pcbs[p].state = TCP_PCB_STATE_SYN_RECEIVED
        /\ pcbs[p].irs \in ISNs
        /\ Len(out) = 1
        /\ out[1].flg = {TCP_FLG_SYN, TCP_FLG_ACK}
        /\ out[1].seq = pcbs[p].iss

\* C2, first part: a passive open whose sleep was not ended by an interrupt
\* does not return while its PCB is in LISTEN or SYN_RECEIVED.
C2_NoEarlyReturn ==
    \A t \in Threads :
        (/\ calls[t].op = "open"
         /\ calls[t].wake # "interrupt"
         /\ calls'[t] = Idle)
        => pcbs[calls[t].id].state \notin
               {TCP_PCB_STATE_LISTEN, TCP_PCB_STATE_SYN_RECEIVED}

\* C2, the handshake: when an ACK without payload, with seq = rcv.nxt and
\* ack = iss + 1, arriving for a PCB in SYN_RECEIVED moves it to
\* ESTABLISHED, the PCB has snd.una = snd.nxt = iss + 1 and
\* rcv.nxt = irs + 1, and the sleep of the open call waiting on it is ended.
C2_Handshake ==
    nsegs' # nsegs =>
    \A pair \in ArrivalPairs, sh \in SegShapes :
        LET p == PcbFor(pair)
        IN  (/\ p # NoPcb
             /\ pcbs[p].state = TCP_PCB_STATE_SYN_RECEIVED
             /\ TCP_FLG_ACK \in sh[1]
             /\ sh[2] = 0)
            => \A x \in InputsFor(pair, sh) :
                (/\ x.d.seq = pcbs[p].rcv.nxt
                 /\ x.d.ack = U32Add(pcbs[p].iss, 1)
                 /\ TcpInput(x.d, x.iss, x.ctx_ok)
                 /\ pcbs'[p].state = TCP_PCB_STATE_ESTABLISHED)
                => (/\ pcbs'[p].snd.una = U32Add(pcbs[p].iss, 1)
                    /\ pcbs'[p].snd.nxt = U32Add(pcbs[p].iss, 1)
                    /\ pcbs'[p].rcv.nxt = U32Add(pcbs[p].irs, 1)
                    /\ \A t \in Threads :
                           (calls[t].op = "open" /\ calls[t].id = p)
                           => calls'[t].wake # "none")

\* C2, the return: a woken open call that runs again while its PCB is
\* ESTABLISHED returns the slot index and leaves the table alone.
C2_ReturnsHandle ==
    \A t \in Threads :
        (/\ calls[t].op = "open"
         /\ calls[t].wake = "wakeup"
         /\ pcbs[calls[t].id].state = TCP_PCB_STATE_ESTABLISHED
         /\ OpenResume(t))
        => (/\ calls'[t] = Idle
            /\ ret' = Ret("open", calls[t].id, calls[t].id, "none", <<>>)
            /\ pcbs' = pcbs)

\* the open call of thread t has been woken with its PCB ESTABLISHED
OpenWoken(t) ==
    /\ calls[t].op = "open"
    /\ calls[t].wake = "wakeup"
    /\ pcbs[calls[t].id].state = TCP_PCB_STATE_ESTABLISHED

\* thread t is in no call and the last command returned is an open that
\* returned the slot index of its PCB
OpenReturned(t) ==
    /\ calls[t] = Idle
    /\ ret.op = "open"
    /\ ret.err = "none"
    /\ ret.val = ret.id

\* the PCB of the open call of thread t has left ESTABLISHED
OpenLost(t) ==
    /\ calls[t].op = "open"
    /\ pcbs[calls[t].id].state # TCP_PCB_STATE_ESTABLISHED

\* C2: an open call blocked on the PCB it put in LISTEN does not return
\* while the PCB is in LISTEN or SYN_RECEIVED unless interrupted; once the
\* handshake ACK moves the PCB to ESTABLISHED it has snd.una = snd.nxt =
\* iss + 1 and rcv.nxt = irs + 1 and the call is woken; the woken call
\* eventually returns the slot index (unless the PCB leaves ESTABLISHED
\* before the call runs again).
C2_OpenPassive ==
    /\ [][C2_NoEarlyReturn /\ C2_Handshake /\ C2_ReturnsHandle]_vars
    /\ \A t \in Threads : OpenWoken(t) ~> (OpenReturned(t) \/ OpenLost(t))

\* C2 as stated: as C2_OpenPassive, but the woken call returns the slot
\* index whatever happens to the PCB before the call runs again.
C2_AsStated ==
    /\ [][C2_NoEarlyReturn /\ C2_Handshake /\ C2_ReturnsHandle]_vars
    /\ \A t \in Threads : OpenWoken(t) ~> OpenReturned(t)

\* an open call has returned the index of a PCB the handshake established
C2_Witness ==
    \E p \in Slots :
        /\ ret = Ret("open", p, p, "none", <<>>)
        /\ pcbs[p].state = TCP_PCB_STATE_ESTABLISHED
        /\ pcbs[p].snd.una = U32Add(pcbs[p].iss, 1)
        /\ pcbs[p].snd.nxt = U32Add(pcbs[p].iss, 1)
        /\ pcbs[p].rcv.nxt = U32Add(pcbs[p].irs, 1)

\* C3: when a segment arrives that acknowledges outstanding data of an
\* ESTABLISHED PCB and leaves a usable window cap # 0, a send call sleeping
\* on that PCB because cap was 0 has its sleep ended, so that it resumes,
\* emits the remaining data and returns the full length.
C3_AckWakesSender ==
    [][nsegs' # nsegs =>
       \A t \in Threads :
        (/\ calls[t].op = "send"
         /\ calls[t].wake = "none"
         /\ pcbs[calls[t].id].state = TCP_PCB_STATE_ESTABLISHED
         /\ SendCap(pcbs[calls[t].id]) = U32Of(0)
         /\ pcbs'[calls[t].id].snd.una # pcbs[calls[t].id].snd.una
         /\ SendCap(pcbs'[calls[t].id]) # U32Of(0))
        => calls'[t].wake = "wakeup"]_vars

\* the octets sent and not yet acknowledged: snd.nxt - snd.una
InFlight(pcb) == U32Sub(pcb.snd.nxt, pcb.snd.una)

\* C4: send is bounded by the peer window: after every step in which send
\* emits data on an ESTABLISHED PCB (snd.nxt advances),
\* snd.nxt - snd.una <= snd.wnd, whatever ACKs arrived before.
C4_SendWithinWindow ==
    [][\A p \in Slots :
        (/\ pcbs[p].state = TCP_PCB_STATE_ESTABLISHED
         /\ pcbs'[p].snd.nxt # pcbs[p].snd.nxt)
        => U32Le(InFlight(pcbs'[p]), U32Of(pcbs'[p].snd.wnd))]_vars

\* C5: in every reachable state, every PCB that is not FREE has rcv.wnd
\* plus the number of payload bytes held in its receive buffer equal to
\* 65535.
C5_WindowPlusHeld ==
    \A p \in Slots :
        pcbs[p].state # TCP_PCB_STATE_FREE
        => pcbs[p].rcv.wnd + pcbs[p].held = 65535

\* the effect C6 states for the arrival of an in-order payload on an
\* ESTABLISHED PCB: one bare ACK with ack = seg.seq + seg.len and the
\* shrunken window, the payload appended behind the bytes held.  With
\* needAck it is stated only for segments that carry ACK with
\* seg.ack <= snd.nxt.
C6_Arrival(needAck) ==
    nsegs' # nsegs =>
    \A pair \in ArrivalPairs, sh \in SegShapes :
        LET p == PcbFor(pair)
            n == sh[2]
        IN  (/\ p # NoPcb
             /\ pcbs[p].state = TCP_PCB_STATE_ESTABLISHED
             /\ n > 0
             /\ n <= pcbs[p].rcv.wnd
             /\ needAck => TCP_FLG_ACK \in sh[1])
            => \A x \in InputsFor(pair, sh) :
                (/\ x.d.seq = pcbs[p].rcv.nxt
                 /\ needAck => U32Le(x.d.ack, pcbs[p].snd.nxt)
                 /\ TcpInput(x.d, x.iss, x.ctx_ok))
                => LET remain == BUF_SIZE - pcbs[p].rcv.wnd
                   IN  /\ Len(out') = 1
                       /\ out'[1].flg = {TCP_FLG_ACK}
                       /\ out'[1].len = 0
                       /\ out'[1].ack = U32Add(x.d.seq, n)
                       /\ out'[1].wnd = pcbs[p].rcv.wnd - n
                       /\ pcbs'[p].rcv.wnd = pcbs[p].rcv.wnd - n
                       /\ pcbs'[p].rcv.nxt = U32Add(x.d.seq, n)
                       /\ BytesTake(pcbs'[p].buf, remain + n)
                          = BytesCat(BytesTake(pcbs[p].buf, remain),
                                     BytesOf(x.d.b, n))

\* the effect C6 states for a receive call of the given size that returns
\* data from PCB p, none of whose payloads exceeded the window: it returns
\* the first min(size, bytes held) bytes of the buffer, keeps the rest in
\* order at the head, and raises rcv.wnd by the count returned.
C6_Returned(p, size) ==
    (ret'.op = "receive" /\ ret'.err = "none" /\ ~overrun)
    => LET k == MIN(size, pcbs[p].held)
       IN  /\ k > 0
           /\ ret'.val = k
           /\ ret'.data = BytesTake(pcbs[p].buf, k)
           /\ pcbs'[p].rcv.wnd = pcbs[p].rcv.wnd + k
           /\ pcbs'[p].held = pcbs[p].held - k
           /\ BytesTake(pcbs'[p].buf, pcbs[p].held - k)
              = BytesSub(pcbs[p].buf, k, pcbs[p].held - k)

C6_Receive ==
    /\ ncalls' # ncalls =>
         \A t \in Threads, id \in Handles, size \in ReceiveSizes :
            (tcp_pcb_get(pcbs, id) # NoPcb /\ Receive(t, id, size))
            => C6_Returned(id, size)
    /\ \A t \in Threads :
         (calls[t].op = "receive" /\ ReceiveResume(t))
         => C6_Returned(calls[t].id, calls[t].size)

\* C6: on an ESTABLISHED PCB every payload segment that arrives in order
\* (seg.seq = rcv.nxt, payload length <= rcv.wnd) and carries ACK with
\* seg.ack <= snd.nxt is answered by one bare ACK with
\* ack = seg.seq + seg.len and wnd = the shrunken rcv.wnd and is appended
\* behind the bytes held; each receive call returns min(size, bytes held)
\* bytes from the head of the buffer, in arrival order, and raises rcv.wnd
\* by exactly that count.
C6_InOrderData == [][C6_Arrival(TRUE) /\ C6_Receive]_vars

\* C6 as stated: the same for every in-order payload segment, whatever its
\* ACK flag and acknowledgment number.
C6_AsStated == [][C6_Arrival(FALSE) /\ C6_Receive]_vars

\* a receive call has returned 8 bytes taken from two payloads, the older
\* one first
C6_Witness ==
    /\ ret.op = "receive"
    /\ ret.val = 8
    /\ Len(ret.data) = 2
    /\ ret.data[1].b < ret.data[2].b
    /\ ~overrun

\* C7, the close step: a close that returns ok has emitted one RST for
\* the PCB, and has zeroed the slot when no call sleeps on it.
C7_Immediate ==
    (ncalls' # ncalls /\ ret'.op = "close" /\ ret'.val = 0)
    => LET p == ret'.id
       IN  /\ Len(out') = 1
           /\ out'[1].flg = {TCP_FLG_RST}
           /\ out'[1].local = pcbs[p].local
           /\ out'[1].foreign = pcbs[p].foreign
           /\ (\A t \in Threads : ~Sleeping(calls, t, p)) => pcbs'[p] = ZeroPcb

\* C7, the deferred release: when the last command returned is an ok close
\* of PCB p and the only call sleeping on p, woken, runs again, that call
\* completes the release: the slot is FREE and zeroed afterwards.
C7_Deferred ==
    \A t \in Threads :
        (/\ calls[t].op # "none"
         /\ calls[t].wake = "wakeup"
         /\ ret = Ret("close", calls[t].id, 0, "none", <<>>)
         /\ \A u \in Threads \ {t} : ~Sleeping(calls, u, calls[t].id)
         /\ calls'[t] # calls[t])
        => pcbs'[calls[t].id] = ZeroPcb

\* C7: after close(handle) returns ok on a non-FREE PCB an RST has been
\* emitted for it and the slot returns to FREE (zeroed): immediately when
\* no call sleeps on the PCB, and otherwise when the last waiter, woken by
\* the deferred release, runs again.
C7_CloseFreesSlot == [][C7_Immediate /\ C7_Deferred]_vars

\* the PCB names both ends of a connection: neither address is ANY and
\* neither port is 0
NonWildcard(pcb) ==
    /\ pcb.local.addr # IP_ADDR_ANY
    /\ pcb.local.port # 0
    /\ pcb.foreign.addr # IP_ADDR_ANY
    /\ pcb.foreign.port # 0

\* C8: in every reachable state no two PCBs that are not FREE have the
\* same non-wildcard (local, foreign) tuple.
C8_UniqueTuples ==
    \A p, q \in Slots :
        (/\ p # q
         /\ pcbs[p].state # TCP_PCB_STATE_FREE
         /\ pcbs[q].state # TCP_PCB_STATE_FREE
         /\ NonWildcard(pcbs[p]))
        => ~(/\ pcbs[p].local = pcbs[q].local
             /\ pcbs[p].foreign = pcbs[q].foreign)

\* the endpoints tcp_pcb_select is tried with on every reachable table
SelectLocals ==
    {Endpoint(HostAddr, 7), Endpoint(HostAddr, 8), Endpoint(HostAddr, 0)}

SelectForeigns ==
    {<<>>, <<Endpoint(PeerAddr, 40000)>>, <<Endpoint(PeerAddr, 40001)>>,
     <<Endpoint(IP_ADDR_ANY, 0)>>}

\* C9: on every reachable table, for every local endpoint and every
\* foreign endpoint (or none), local port 0 and foreign (ANY, 0) included,
\* tcp_pcb_select returns no PCB whose state is FREE.
C9_SelectNeverFree ==
    \A local \in SelectLocals, foreign \in SelectForeigns :
        LET p == tcp_pcb_select(pcbs, local, foreign)
        IN  p # NoPcb => pcbs[p].state # TCP_PCB_STATE_FREE

\* the foreign endpoints of SelectForeigns that name a peer
SpecificForeigns ==
    {f \in SelectForeigns : f # <<>> /\ f[1] # Endpoint(IP_ADDR_ANY, 0)}

\* the PCBs whose local endpoint matches local and whose foreign endpoint
\* is exactly f
ExactPcbs(local, f) ==
    {i \in Slots : LocalMatch(pcbs[i], local) /\ pcbs[i].foreign = f}

\* the LISTEN PCBs with foreign (ANY, 0) whose local endpoint matches local
\* and that are not FREE slots
WildcardPcbs(local) ==
    {i \in Slots : /\ LocalMatch(pcbs[i], local)
                   /\ pcbs[i].state = TCP_PCB_STATE_LISTEN
                   /\ pcbs[i].foreign = Endpoint(IP_ADDR_ANY, 0)}

\* C10: on every reachable table, selection with a specific foreign
\* endpoint returns a PCB with matching local and exactly that foreign
\* endpoint whenever one exists, wherever it is in the table; when none
\* exists it returns a LISTEN PCB with foreign (ANY, 0) and matching local
\* (the only one, when there is exactly one) if there is any, and no PCB
\* otherwise.
C10_SelectExactThenListen ==
    \A local \in SelectLocals, f \in SpecificForeigns :
        LET r == tcp_pcb_select(pcbs, local, f)
        IN  IF ExactPcbs(local, f[1]) # {}
            THEN r \in ExactPcbs(local, f[1])
            ELSE IF WildcardPcbs(local) # {}
            THEN r \in WildcardPcbs(local)
            ELSE r = NoPcb

\* a table in which a PCB with the exact foreign endpoint sits behind a
\* wildcard LISTEN PCB with the same local port: selection for that peer
\* returns the exact one, selection for another peer the wildcard one
C10_Witness ==
    \E local \in SelectLocals, f \in SpecificForeigns, g \in SpecificForeigns :
        LET r == tcp_pcb_select(pcbs, local, f)
            w == tcp_pcb_select(pcbs, local, g)
        IN  /\ r # NoPcb
            /\ w # NoPcb
            /\ w < r
            /\ pcbs[r].state # TCP_PCB_STATE_FREE
            /\ pcbs[r].foreign = f[1]
            /\ WildcardPcbs(local) = {w}
            /\ ExactPcbs(local, g[1]) = {}

\* a <= b in the order of sequence numbers modulo 2^32: b is at most
\* 2^31 - 1 ahead of a
SeqLe(a, b) == U32Sub(b, a).hi < 32768

\* C11: in every step that leaves a PCB within one connection (in
\* SYN_RECEIVED or ESTABLISHED before and after), snd.una and snd.nxt do not
\* decrease in the order of sequence numbers modulo 2^32, and after every
\* step, segment arrivals included, snd.una <= snd.nxt in that order.
C11_SendVarsMonotone ==
    [][\A p \in Slots :
        /\ (Synced(pcbs[p]) /\ Synced(pcbs'[p]))
           => (/\ SeqLe(pcbs[p].snd.una, pcbs'[p].snd.una)
               /\ SeqLe(pcbs[p].snd.nxt, pcbs'[p].snd.nxt))
        /\ Synced(pcbs'[p]) => SeqLe(pcbs'[p].snd.una, pcbs'[p].snd.nxt)]_vars

\* data sent on an ESTABLISHED PCB has been acknowledged in full: snd.una
\* has moved past iss + 1 and has caught up with snd.nxt
C11_Witness ==
    \E p \in Slots :
        /\ pcbs[p].state = TCP_PCB_STATE_ESTABLISHED
        /\ pcbs[p].snd.una = pcbs[p].snd.nxt
        /\ pcbs[p].snd.una # U32Add(pcbs[p].iss, 1)
        /\ nsegs = 3

\* C12: in every reachable state, a segment that fails the acceptability
\* test, arriving for a PCB in SYN_RECEIVED or ESTABLISHED, changes no PCB
\* and wakes no sleeping call; with RST clear exactly one segment is
\* emitted, a bare ACK with seq = snd.nxt, ack = rcv.nxt and wnd = rcv.wnd;
\* with RST set nothing is emitted.
C12_UnacceptableSegment ==
    \A pair \in ArrivalPairs, sh \in SegShapes :
        LET p == PcbFor(pair)
        IN  (p # NoPcb /\ Synced(pcbs[p]))
            => \A x \in InputsFor(pair, sh) :
                ~Acceptable(pcbs[p], SegInfo(x.d))
                => LET r == tcp_input(pcbs, x.d, x.iss, x.ctx_ok)
                   IN  /\ r.pcbs = pcbs
                       /\ ~r.wake
                       /\ ~r.overrun
                       /\ IF TCP_FLG_RST \in sh[1]
                          THEN r.out = <<>>
                          ELSE /\ Len(r.out) = 1
                               /\ r.out[1].flg = {TCP_FLG_ACK}
                               /\ r.out[1].len = 0
                               /\ r.out[1].seq = pcbs[p].snd.nxt
                               /\ r.out[1].ack = pcbs[p].rcv.nxt
                               /\ r.out[1].wnd = pcbs[p].rcv.wnd

\* the last step answered a segment for a PCB in SYN_RECEIVED with a bare
\* ACK that repeats rcv.nxt and rcv.wnd: in that state only a segment that
\* fails the acceptability test is answered so
C12_Witness ==
    \E p \in Slots :
        /\ pcbs[p].state = TCP_PCB_STATE_SYN_RECEIVED
        /\ nsegs = 2
        /\ ret = NoRet
        /\ Len(out) = 1
        /\ out[1].flg = {TCP_FLG_ACK}
        /\ out[1].seq = pcbs[p].snd.nxt
        /\ out[1].ack = pcbs[p].rcv.nxt
        /\ out[1].wnd = pcbs[p].rcv.wnd

\* no PCB in use matches the endpoints of pair: none has a matching local
\* endpoint together with that foreign endpoint or, in LISTEN, the
\* wildcard foreign endpoint
NoMatch(pair) ==
    \A i \in Slots :
        \/ pcbs[i].state = TCP_PCB_STATE_FREE
        \/ ~LocalMatch(pcbs[i], pair[1])
        \/ ~(\/ pcbs[i].foreign = pair[2]
             \/ (/\ pcbs[i].state = TCP_PCB_STATE_LISTEN
                 /\ pcbs[i].foreign = Endpoint(IP_ADDR_ANY, 0)))

\* what C13 states for the segment x arriving between the endpoints of
\* pair: no PCB changes; nothing is emitted when RST is set, else one
\* RST|ACK with seq = 0 and ack = seg.seq + seg.len when ACK is clear, else
\* one RST with seq = seg.ack
StrayAnswer(pair, x) ==
    LET r == tcp_input(pcbs, x.d, x.iss, x.ctx_ok)
        seg == SegInfo(x.d)
    IN  /\ r.pcbs = pcbs
        /\ ~r.wake
        /\ IF TCP_FLG_RST \in x.d.flg
           THEN r.out = <<>>
           ELSE /\ Len(r.out) = 1
                /\ r.out[1].len = 0
                /\ r.out[1].local = pair[1]
                /\ r.out[1].foreign = pair[2]
                /\ IF TCP_FLG_ACK \notin x.d.flg
                   THEN /\ r.out[1].flg = {TCP_FLG_RST, TCP_FLG_ACK}
                        /\ r.out[1].seq = U32Of(0)
                        /\ r.out[1].ack = U32Add(seg.seq, seg.len)
                   ELSE /\ r.out[1].flg = {TCP_FLG_RST}
                        /\ r.out[1].seq = seg.ack

\* C13: in every reachable state, a segment for which no PCB in use
\* matches, or whose matching PCB is CLOSED, changes no PCB and is answered
\* by nothing when it has RST, by one RST|ACK with seq = 0 and
\* ack = seg.seq + seg.len when it has neither RST nor ACK, and by one RST
\* with seq = seg.ack otherwise.
C13_StraySegment ==
    \A pair \in ArrivalPairs, sh \in SegShapes :
        LET p == PcbFor(pair)
        IN  (\/ NoMatch(pair)
             \/ (p # NoPcb /\ pcbs[p].state = TCP_PCB_STATE_CLOSED))
            => \A x \in InputsFor(pair, sh) : StrayAnswer(pair, x)

\* C14, the event: the handler ends, with an interrupt, the sleep of every
\* call that sleeps on a PCB that is not FREE, and changes no PCB.
C14_Posted ==
    EventHandler
    => (/\ pcbs' = pcbs
        /\ \A t \in Threads :
             (/\ calls[t].op # "none"
              /\ calls[t].wake = "none"
              /\ pcbs[calls[t].id].state # TCP_PCB_STATE_FREE)
             => calls'[t] = [calls[t] EXCEPT !.wake = "interrupt"])

\* C14, the return: a call whose sleep was ended by an interrupt returns
\* -1 with EINTR when it runs again; an interrupted receive changes no
\* PCB.  With partial, a send call that has emitted data before it slept
\* returns the count of bytes sent instead.
C14_Returns(partial) ==
    \A t \in Threads :
        (calls[t].wake = "interrupt" /\ calls'[t] # calls[t])
        => (/\ calls'[t] = Idle
            /\ ret'.op = calls[t].op
            /\ ret'.id = calls[t].id
            /\ IF partial /\ calls[t].op = "send" /\ calls[t].sent > 0
               THEN ret'.val = calls[t].sent /\ ret'.err = "none"
               ELSE ret'.val = -1 /\ ret'.err = "EINTR"
            /\ calls[t].op \in {"send", "receive"} => pcbs' = pcbs)

\* C14: when the external event fires, an interrupt is posted to every PCB
\* that is not FREE; every open or receive call, and every send call that
\* has sent nothing yet, sleeping on such a PCB returns the INTERRUPTED
\* error when it runs again, a send call that has sent part of its data
\* returns the count sent; an interrupted receive or send leaves every PCB
\* unchanged.
C14_Interrupted == [][C14_Posted /\ C14_Returns(TRUE)]_vars

\* C14 as stated: every interrupted call returns the INTERRUPTED error.
C14_AsStated == [][C14_Posted /\ C14_Returns(FALSE)]_vars

\* a receive call sleeping on an ESTABLISHED PCB with an empty buffer has
\* returned EINTR and the PCB is still ESTABLISHED and empty
C14_Witness ==
    \E p \in Slots :
        /\ ret = Ret("receive", p, -1, "EINTR", <<>>)
        /\ pcbs[p].state = TCP_PCB_STATE_ESTABLISHED
        /\ pcbs[p].rcv.wnd = BUF_SIZE
        /\ pcbs[p].buf = ZeroBuf

\* the states the code uses in this subset
LifecycleStates ==
    {TCP_PCB_STATE_FREE, TCP_PCB_STATE_CLOSED, TCP_PCB_STATE_LISTEN,
     TCP_PCB_STATE_SYN_RECEIVED, TCP_PCB_STATE_ESTABLISHED}

\* the step takes slot p from state a to state b along the lifecycle: to
\* LISTEN from FREE (through CLOSED) by an open call that now sleeps on p,
\* to SYN_RECEIVED from LISTEN and to ESTABLISHED from SYN_RECEIVED by a
\* segment arrival, to FREE by a close that returned ok or by a call on p
\* that failed, to CLOSED by a call on p that failed
LifecycleStep(p, a, b) ==
    \/ /\ a = TCP_PCB_STATE_FREE
       /\ b = TCP_PCB_STATE_LISTEN
       /\ ncalls' = ncalls + 1
       /\ \E t \in Threads :
            calls[t] = Idle /\ calls'[t].op = "open" /\ calls'[t].id = p
    \/ /\ a = TCP_PCB_STATE_LISTEN
       /\ b = TCP_PCB_STATE_SYN_RECEIVED
       /\ nsegs' = nsegs + 1
    \/ /\ a = TCP_PCB_STATE_SYN_RECEIVED
       /\ b = TCP_PCB_STATE_ESTABLISHED
       /\ nsegs' = nsegs + 1
    \/ /\ b = TCP_PCB_STATE_FREE
       /\ nsegs' = nsegs
       /\ ret'.id = p
       /\ \/ ret'.op = "close" /\ ret'.val = 0
          \/ ret'.op \in {"open", "send"} /\ ret'.val = -1
    \/ /\ b = TCP_PCB_STATE_CLOSED
       /\ nsegs' = nsegs
       /\ ret'.id = p
       /\ ret'.op \in {"open", "send"}
       /\ ret'.val = -1

FailedWithRelease ==
    \/ ret.op = "open" /\ ret.val = -1 /\ ret.err \in {"active", "EINTR", "state"}
    \/ ret.op = "send" /\ ret.val = -1 /\ ret.err = "output"

\* C16: in every reachable state in which the last command returned is an
\* open that failed (active open, interrupted sleep, unexpected state) or
\* a send that failed in emission, the slot of its PCB is FREE and zeroed,
\* unless another call still sleeps on that PCB, and then the PCB is
\* CLOSED.
C16_FailureReleases ==
    FailedWithRelease
    => IF \E t \in Threads : Sleeping(calls, t, ret.id)
       THEN pcbs[ret.id].state = TCP_PCB_STATE_CLOSED
       ELSE pcbs[ret.id] = ZeroPcb

\* a send on an ESTABLISHED PCB has failed in emission after the open call
\* had returned, and the slot is FREE again
C16_Witness ==
    /\ ret.op = "send"
    /\ ret.err = "output"
    /\ pcbs[ret.id] = ZeroPcb
    /\ nsegs >= 2
    /\ ncalls >= 2

\* the lowest index of a FREE slot of the table P, or NoPcb when there is
\* none
LowestFree(P) ==
    IF \E i \in Slots : P[i].state = TCP_PCB_STATE_FREE
    THEN CHOOSE i \in Slots :
            /\ P[i].state = TCP_PCB_STATE_FREE
            /\ \A j \in Slots : j < i => P[j].state # TCP_PCB_STATE_FREE
    ELSE NoPcb

\* the step is the call of tcp_open_rfc793 by some thread
OpenIssued ==
    /\ ncalls' = ncalls + 1
    /\ \/ ret'.op = "open"
       \/ \E t \in Threads : calls[t] = Idle /\ calls'[t].op = "open"

\* C17, the allocation: with a FREE slot the call takes the lowest one,
\* which tcp_pcb_alloc marks CLOSED, leaves the other slots alone, and
\* either sleeps on it in LISTEN or (active open) gives it back; with no
\* FREE slot it fails at once and changes nothing.
C17_Allocates ==
    OpenIssued =>
    LET m == LowestFree(pcbs)
    IN  IF m = NoPcb
        THEN /\ pcbs' = pcbs
             /\ calls' = calls
             /\ out' = <<>>
             /\ ret' = Ret("open", NoPcb, -1, "alloc", <<>>)
        ELSE /\ tcp_pcb_alloc(pcbs) = [pcbs EXCEPT ![m].state = TCP_PCB_STATE_CLOSED]
             /\ \A i \in Slots \ {m} : pcbs'[i] = pcbs[i]
             /\ \/ /\ pcbs'[m].state = TCP_PCB_STATE_LISTEN
                   /\ ret' = NoRet
                   /\ \E t \in Threads :
                        /\ calls[t] = Idle
                        /\ calls'[t].op = "open"
                        /\ calls'[t].id = m
                \/ /\ pcbs'[m] = ZeroPcb
                   /\ calls' = calls
                   /\ ret' = Ret("open", m, -1, "active", <<>>)

\* C17, the handle: an open call stays on the slot it took, which is not
\* FREE while the call sleeps; the handle it returns is the index of that
\* slot; and every index of a slot that is not FREE denotes that slot.
C17_Handle ==
    /\ \A t \in Threads :
         calls'[t].op = "open"
         => /\ pcbs'[calls'[t].id].state # TCP_PCB_STATE_FREE
            /\ calls[t].op = "open" => calls'[t].id = calls[t].id
    /\ \A t \in Threads :
         (/\ calls[t].op = "open"
          /\ calls'[t] = Idle
          /\ ret'.val # -1)
         => (/\ ret'.op = "open"
             /\ ret'.val = calls[t].id
             /\ pcbs'[ret'.val].state # TCP_PCB_STATE_FREE)
    /\ \A id \in Slots :
         pcbs'[id].state # TCP_PCB_STATE_FREE => tcp_pcb_get(pcbs', id) = id

\* C17: open_passive takes the lowest-index FREE slot of the 16 and marks
\* it CLOSED before LISTEN; with all 16 slots in use it fails without
\* sleeping and without changing any slot; the handle returned is the
\* index of the slot, which denotes the same PCB until it is released.
C17_OpenAllocates == [][C17_Allocates /\ C17_Handle]_vars

\* an open call has failed on a table with no FREE slot
C17_Witness ==
    /\ ret = Ret("open", NoPcb, -1, "alloc", <<>>)
    /\ \A i \in Slots : pcbs[i].state # TCP_PCB_STATE_FREE

\* the handle id is out of range or names a FREE slot
InvalidHandle(id) ==
    \/ id < 0
    \/ id >= TCP_PCB_SIZE
    \/ pcbs[id].state = TCP_PCB_STATE_FREE

\* the handle id is invalid, or names a PCB that is not ESTABLISHED
NotUsable(id) ==
    InvalidHandle(id) \/ pcbs[id].state # TCP_PCB_STATE_ESTABLISHED

\* the call op has failed at once: -1 is returned, nothing is emitted, no
\* call sleeps that did not before, no PCB is changed
FailsAtOnce(op) ==
    /\ ret'.op = op
    /\ ret'.val = -1
    /\ out' = <<>>
    /\ calls' = calls
    /\ pcbs' = pcbs

\* C18: in every step that is a call of send, receive or close with a
\* handle out of range or naming a FREE slot, or a call of send or receive
\* on a PCB that is not ESTABLISHED, the call returns -1, nothing is
\* emitted, the call does not sleep and no PCB is changed.
C18_BadHandleFails ==
    [][ncalls' # ncalls =>
       \A t \in Threads, id \in Handles :
        /\ InvalidHandle(id) => (Close(t, id) => FailsAtOnce("close"))
        /\ NotUsable(id) =>
             /\ \A size \in ReceiveSizes :
                  Receive(t, id, size) => FailsAtOnce("receive")
             /\ \A len \in SendLens, route \in Routes, failAt \in 0..1 :
                  Send(t, id, len, route, failAt) => FailsAtOnce("send")]_vars

\* a send on a PCB in LISTEN has just failed and the PCB is still in LISTEN
C18_Witness ==
    \E p \in Slots :
        /\ ret = Ret("send", p, -1, "state", <<>>)
        /\ pcbs[p].state = TCP_PCB_STATE_LISTEN
        /\ out = <<>>

\* what C19 states for the acceptable segment x arriving for the PCB p in
\* SYN_RECEIVED
SynReceivedAnswer(p, x) ==
    LET r == tcp_input(pcbs, x.d, x.iss, x.ctx_ok)
        e == tcp_input([pcbs EXCEPT ![p].state = TCP_PCB_STATE_ESTABLISHED],
                       x.d, x.iss, x.ctx_ok)
        n == DataLen(x.d)
    IN  IF TCP_FLG_ACK \notin x.d.flg
        THEN r.pcbs = pcbs /\ r.out = <<>> /\ ~r.wake
        ELSE IF U32Le(pcbs[p].snd.una, x.d.ack) /\ U32Le(x.d.ack, pcbs[p].snd.nxt)
        THEN /\ r.pcbs[p].state = TCP_PCB_STATE_ESTABLISHED
             /\ r.wake
             /\ \A i \in Slots \ {p} : r.pcbs[i] = pcbs[i]
             /\ r.pcbs = e.pcbs
             /\ r.out = e.out
             /\ U32Lt(pcbs[p].snd.una, x.d.ack)
                => (/\ r.pcbs[p].snd.una = x.d.ack
                    /\ r.pcbs[p].snd.wnd = x.d.wnd)
             /\ IF n > 0
                THEN /\ r.pcbs[p].held = n
                     /\ r.pcbs[p].rcv.wnd = BUF_SIZE - n
                     /\ r.pcbs[p].rcv.nxt = U32Add(x.d.seq, n)
                     /\ BytesTake(r.pcbs[p].buf, n) = BytesOf(x.d.b, n)
                     /\ Len(r.out) = 1
                     /\ r.out[1].flg = {TCP_FLG_ACK}
                     /\ r.out[1].ack = U32Add(x.d.seq, n)
                ELSE r.out = <<>> /\ r.pcbs[p].rcv = pcbs[p].rcv
        ELSE /\ r.pcbs = pcbs
             /\ ~r.wake
             /\ Len(r.out) = 1
             /\ r.out[1].flg = {TCP_FLG_RST}
             /\ r.out[1].seq = x.d.ack
             /\ r.out[1].len = 0

\* C19: in every reachable state, an acceptable segment arriving for a PCB
\* in SYN_RECEIVED: with ACK and snd.una <= seg.ack <= snd.nxt makes the
\* PCB ESTABLISHED, wakes its sleepers and is then processed as the same
\* segment is on the ESTABLISHED PCB (snd.una and snd.wnd updated, payload
\* stored and acknowledged); with ACK outside that range is answered by
\* one RST with seq = seg.ack and changes nothing; without ACK is dropped
\* and changes nothing.
C19_SynReceivedAck ==
    \A pair \in ArrivalPairs, sh \in SegShapes :
        LET p == PcbFor(pair)
        IN  (p # NoPcb /\ pcbs[p].state = TCP_PCB_STATE_SYN_RECEIVED)
            => \A x \in InputsFor(pair, sh) :
                Acceptable(pcbs[p], SegInfo(x.d)) => SynReceivedAnswer(p, x)

\* a segment with ACK and payload has taken a PCB from SYN_RECEIVED to
\* ESTABLISHED: the payload is stored and acknowledged and the open call
\* is woken
C19_Witness ==
    \E p \in Slots :
        /\ pcbs[p].state = TCP_PCB_STATE_ESTABLISHED
        /\ nsegs = 2
        /\ pcbs[p].held = 5
        /\ pcbs[p].snd.una = U32Add(pcbs[p].iss, 1)
        /\ Len(out) = 1
        /\ out[1].flg = {TCP_FLG_ACK}
        /\ \E t \in Threads :
             calls[t].op = "open" /\ calls[t].id = p /\ calls[t].wake = "wakeup"

\* what C20 states for the acceptable segment x with ACK arriving for the
\* ESTABLISHED PCB p
EstablishedAckAnswer(p, x) ==
    LET r == tcp_input(pcbs, x.d, x.iss, x.ctx_ok)
        snd == pcbs[p].snd
        q == r.pcbs[p].snd
    IN  IF U32Lt(snd.una, x.d.ack) /\ U32Le(x.d.ack, snd.nxt)
        THEN /\ q.una = x.d.ack
             /\ q.nxt = snd.nxt
             /\ IF \/ U32Lt(snd.wl1, x.d.seq)
                   \/ (snd.wl1 = x.d.seq /\ U32Le(snd.wl2, x.d.ack))
                THEN q.wnd = x.d.wnd /\ q.wl1 = x.d.seq /\ q.wl2 = x.d.ack
                ELSE q.wnd = snd.wnd /\ q.wl1 = snd.wl1 /\ q.wl2 = snd.wl2
        ELSE IF U32Lt(x.d.ack, snd.una)
        THEN q = snd
        ELSE IF U32Lt(snd.nxt, x.d.ack)
        THEN /\ r.pcbs = pcbs
             /\ ~r.wake
             /\ Len(r.out) = 1
             /\ r.out[1].flg = {TCP_FLG_ACK}
             /\ r.out[1].len = 0
             /\ r.out[1].seq = snd.nxt
             /\ r.out[1].ack = pcbs[p].rcv.nxt
             /\ r.out[1].wnd = pcbs[p].rcv.wnd
        ELSE q = snd

\* C20: in every reachable state, an acceptable segment with ACK arriving
\* for an ESTABLISHED PCB: with snd.una < seg.ack <= snd.nxt sets snd.una
\* to seg.ack, and sets snd.wnd, wl1, wl2 to seg.wnd, seg.seq, seg.ack
\* exactly when wl1 < seg.seq or (wl1 = seg.seq and wl2 <= seg.ack); with
\* seg.ack < snd.una changes no send variable; with seg.ack > snd.nxt is
\* answered by one bare ACK and changes nothing, its payload not stored.
C20_EstablishedAck ==
    \A pair \in ArrivalPairs, sh \in SegShapes :
        LET p == PcbFor(pair)
        IN  (/\ p # NoPcb
             /\ pcbs[p].state = TCP_PCB_STATE_ESTABLISHED
             /\ TCP_FLG_ACK \in sh[1])
            => \A x \in InputsFor(pair, sh) :
                Acceptable(pcbs[p], SegInfo(x.d)) => EstablishedAckAnswer(p, x)

\* an acknowledgment of data in flight has moved snd.una without the
\* window being taken from its segment: wl2 is still the acknowledgment
\* number of an older segment
C20_Witness ==
    \E p \in Slots :
        /\ pcbs[p].state = TCP_PCB_STATE_ESTABLISHED
        /\ U32Lt(U32Add(pcbs[p].iss, 1), pcbs[p].snd.una)
        /\ pcbs[p].snd.wl2 # pcbs[p].snd.una
        /\ U32Lt(pcbs[p].snd.wl2, pcbs[p].snd.una)

\* x lies in [rcv.nxt, rcv.nxt + rcv.wnd) in sequence space:
\* (x - rcv.nxt) mod 2^32 < rcv.wnd
ModInWindow(pcb, x) ==
    LET d == U32Sub(x, pcb.rcv.nxt)
    IN  d.hi = 0 /\ d.lo < pcb.rcv.wnd

\* the acceptability table evaluated in sequence space
ModAcceptable(pcb, seg) ==
    IF seg.len = 0
    THEN IF pcb.rcv.wnd = 0
         THEN seg.seq = pcb.rcv.nxt
         ELSE ModInWindow(pcb, seg.seq)
    ELSE IF pcb.rcv.wnd = 0
         THEN FALSE
         ELSE \/ ModInWindow(pcb, seg.seq)
              \/ ModInWindow(pcb, U32Add(seg.seq, seg.len - 1))

\* a < b in sequence space: (b - a) mod 2^32 lies in 1 .. 2^31 - 1
SeqLt(a, b) == a # b /\ U32Sub(b, a).hi < 32768

\* the verdict of the code's tests of seg.ack against snd.una and snd.nxt in
\* the state of pcb: "in" when the acknowledgment is taken, "out" when
\* SYN_RECEIVED answers it with RST, "new" when ESTABLISHED answers it as
\* one of unsent data, "old" when ESTABLISHED ignores it
AckVerdict(pcb, seg) ==
    IF pcb.state = TCP_PCB_STATE_SYN_RECEIVED
    THEN IF U32Le(pcb.snd.una, seg.ack) /\ U32Le(seg.ack, pcb.snd.nxt)
         THEN "in" ELSE "out"
    ELSE IF AckEstablished(pcb, seg).snd.una = seg.ack /\ seg.ack # pcb.snd.una
         THEN "in"
         ELSE IF AckTooNew(pcb, seg) THEN "new" ELSE "old"

\* the same tests in sequence space
ModAckVerdict(pcb, seg) ==
    IF pcb.state = TCP_PCB_STATE_SYN_RECEIVED
    THEN IF SeqLe(pcb.snd.una, seg.ack) /\ SeqLe(seg.ack, pcb.snd.nxt)
         THEN "in" ELSE "out"
    ELSE IF SeqLt(pcb.snd.una, seg.ack) /\ SeqLe(seg.ack, pcb.snd.nxt)
         THEN "in"
         ELSE IF SeqLt(pcb.snd.nxt, seg.ack) THEN "new" ELSE "old"

\* C21: in every reachable state, for every PCB in SYN_RECEIVED or
\* ESTABLISHED and every segment that may arrive for it, the code's
\* acceptability test and its tests of seg.ack against snd.una and snd.nxt
\* give the verdict of the same tests evaluated modulo 2^32, also when
\* [rcv.nxt, rcv.nxt + rcv.wnd) straddles 2^32.
C21_ModularVerdicts ==
    \A pair \in ArrivalPairs, sh \in SegShapes :
        LET p == PcbFor(pair)
        IN  (p # NoPcb /\ Synced(pcbs[p]))
            => \A x \in InputsFor(pair, sh) :
                 LET seg == SegInfo(x.d)
                 IN  /\ Acceptable(pcbs[p], seg) = ModAcceptable(pcbs[p], seg)
                     /\ TCP_FLG_ACK \in sh[1]
                        => AckVerdict(pcbs[p], seg) = ModAckVerdict(pcbs[p], seg)


\* the datagram g passes the ingress checks: received length, version,
\* header length, total length, header checksum, no fragmentation, and a
\* destination that is the interface's unicast address, the limited
\* broadcast or the interface's directed broadcast
IpValid(g) ==
    /\ g.len >= IP_HDR_SIZE_MIN
    /\ g.version = IP_VERSION_IPV4
    /\ g.len >= g.ihl * 4
    /\ g.len >= g.total
    /\ g.sum_hdr_ok
    /\ ~g.mf /\ g.frag = 0
    /\ g.iface # <<>>
    /\ g.dst \in {g.iface[1].unicast, IP_ADDR_BROADCAST, g.iface[1].broadcast}

\* C22: in every reachable state, ip_input does for a datagram that passes
\* all ingress checks and carries protocol 6 what the TCP handler does for
\* its payload (tcp_input, and so tcp_segment_arrives, runs for it), and
\* does nothing for a datagram that fails a check.
C22_IpDispatch ==
    \A y \in IpInputs :
        IF IpValid(y.g)
        THEN y.g.protocol = IP_PROTOCOL_TCP
             => ip_input(pcbs, y.g, y.swapped)
                  = tcp_input(pcbs, y.g.data, y.iss, y.ctx_ok)
        ELSE ip_input(pcbs, y.g, y.swapped) = Arrival(pcbs, <<>>, FALSE, FALSE)


\* C23: no payload has been written past the end of a receive buffer, and
\* in every reachable state every segment that may arrive and whose payload
\* tcp_segment_arrives stores (rcv.wnd changes) has a payload of at most
\* rcv.wnd octets, is stored inside the buffer and leaves
\* rcv.wnd - payload length, without wrapping below zero.
C23_PayloadFits ==
    /\ ~overrun
    /\ \A pair \in ArrivalPairs, sh \in SegShapes :
         LET p == PcbFor(pair)
         IN  p # NoPcb
             => \A x \in InputsFor(pair, sh) :
                  LET r == tcp_input(pcbs, x.d, x.iss, x.ctx_ok)
                  IN  r.pcbs[p].rcv.wnd # pcbs[p].rcv.wnd
                      => (/\ r.pcbs[p].state = TCP_PCB_STATE_ESTABLISHED
                             => /\ DataLen(x.d) <= pcbs[p].rcv.wnd
                                /\ ~r.overrun
                                /\ r.pcbs[p].rcv.wnd
                                     = pcbs[p].rcv.wnd - DataLen(x.d))


\* C24: in every reachable state, whatever PCB is selected (none, or one in
\* CLOSED, LISTEN, SYN_RECEIVED or ESTABLISHED), tcp_input emits no segment
\* for an arriving segment that has RST set, whatever its other flags, its
\* sequence and acknowledgment numbers and its payload.
C24_NoAnswerToRst ==
    \A pair \in ArrivalPairs, sh \in SegShapes :
        TCP_FLG_RST \in sh[1]
        => \A x \in InputsFor(pair, sh) :
             tcp_input(pcbs, x.d, x.iss, x.ctx_ok).out = <<>>


\* data-offset nibbles a header may carry: none, the fixed header, the
\* largest
DataOffsets == {0, 5, 15}

\* the datagrams of shape sh that may arrive between the endpoints of pair
\* with a received length of 20 + sh[2] bytes and any of the data offsets
OffsetInputsFor(pair, sh) ==
    {[x.d EXCEPT !.off = off] : x \in InputsFor(pair, sh), off \in DataOffsets}

\* C25: in every reachable state, of the segments that may arrive, tcp_input
\* hands to tcp_segment_arrives only those whose header length
\* (hdr->off >> 4) << 2 is at least 20 and at most the received length, and
\* for those seg.len is the payload length, received length minus header
\* length, plus one for SYN and one for FIN; a segment whose data offset
\* points past its end is dropped.
C25_DataOffset ==
    \A pair \in ArrivalPairs, sh \in SegShapes :
        \A d \in OffsetInputsFor(pair, sh) :
            ~TcpInputDrops(d)
            => /\ HdrLen(d) >= TCP_HDR_SIZE
               /\ HdrLen(d) <= d.len
               /\ DataLen(d) >= 0
               /\ DataLen(d) <= d.len - TCP_HDR_SIZE
               /\ SegInfo(d).len
                    = DataLen(d) + (IF TCP_FLG_SYN \in d.flg THEN 1 ELSE 0)
                                 + (IF TCP_FLG_FIN \in d.flg THEN 1 ELSE 0)

====
